---- MODULE Spec2Model ----
(***************************************************************************)
(* A model of the sweet hotkey-configuration parser (src/src/lib.rs,        *)
(* range.rs, token.rs, evdev_mappings.rs).                                  *)
(*                                                                          *)
(* The pest grammar (template.pest) is not modelled: a file is given as the *)
(* tree of pairs the grammar yields for it.  A pair is a record             *)
(* [rule, str, inner]: its rule, its text (as_str) and its inner pairs.     *)
(* A text (String, &str) is a sequence of characters, each a one-character  *)
(* string, so that to_lowercase, unescape, the parse of a range bound and   *)
(* the join of a command are computed; in a command a longer string stands  *)
(* for a run of characters the parser never looks into.  A path string is   *)
(* modelled by its rank in the lexicographic order of the path strings      *)
(* (BTreeSet<String> pops the least), an evdev key by its constant's name.  *)
(* A u64 (a file size, the size limit) is three limbs of 20, 24 and 20 bits, *)
(* so that `<< 20` loses exactly the bits that leave the 64.               *)
(***************************************************************************)
EXTENDS Integers, Sequences, FiniteSets, TLC

VARIABLES
    fs,        \* the file system: path -> what is at the path, its size, the
               \* paths the file includes and its body
    env,       \* FILESIZE_CAP_MIB as option_env! finds it
    input,     \* the path handed to SwhkdParser::from (ParserInput::Path)
    pc,        \* of from: "start" | "run" | "done"; of binding_parser: "decl" | "parsed"
    stack,     \* the as_import calls in progress, the innermost last
    seen,      \* root_imports of from, the `seen` of every as_import call
    result,    \* what from returned: a Configuration or an error
    order,     \* history: the paths in the order their contents were parsed
    decl,      \* binding_parser alone: the declaration handed to it
    parsed,    \* binding_parser alone: what it returned for decl
    earlier    \* two calls of from: what the earlier call returned

harness == <<env, decl, parsed, earlier>>
vars == <<fs, input, pc, stack, seen, result, order, harness>>

----------------------------------------------------------------------------
(* Bounds of the model.                                                    *)

\* the number of files (path strings) of the file system
NumFiles == 3
\* the most `include` lines one file holds
MaxIncludes == 2
\* the most modifier groups of a declaration handed to binding_parser alone
MaxGroups == 2
\* the most command pieces of a declaration handed to binding_parser alone
MaxPieces == 3
\* the files of the larger file systems, and the include lines in all of them
NumOrderFiles == 4
MaxOrderIncludes == 3
\* the most files of one file system that cannot be read or parsed
MaxFaulty == 2
\* the pieces of a command after its first, in the declarations of SpecCommands
MaxTokens == 4

----------------------------------------------------------------------------
(* Sequences.                                                              *)

\* what `F` makes of a value, the value being evaluated once
With(value, F(_)) == CHOOSE y \in {F(x) : x \in {value}} : TRUE

Range(s) == {s[i] : i \in DOMAIN s}

\* Vec::iter().position(p): the least index whose element is in `hits`, 0 for None
Position(s, hits) ==
    IF \E i \in DOMAIN s : s[i] \in hits
    THEN CHOOSE i \in DOMAIN s : s[i] \in hits /\ \A j \in 1..(i - 1) : s[j] \notin hits
    ELSE 0

\* Vec::remove(i)
RemoveAt(s, i) == [j \in 1..(Len(s) - 1) |-> IF j < i THEN s[j] ELSE s[j + 1]]

RECURSIVE Flatten(_)
Flatten(ss) == IF ss = <<>> THEN <<>> ELSE Head(ss) \o Flatten(Tail(ss))

\* the elements of a set of numbers in increasing order (BTreeSet iteration)
RECURSIVE SortedSeq(_)
SortedSeq(S) ==
    IF S = {} THEN <<>>
    ELSE LET m == CHOOSE x \in S : \A y \in S : x <= y
         IN <<m>> \o SortedSeq(S \ {m})

----------------------------------------------------------------------------
(* Pairs of the grammar.                                                   *)

Pair(rule, str, inner) == [rule |-> rule, str |-> str, inner |-> inner]

\* pair.as_str().to_string() of a token pair
pair_to_string(pair) == pair.str

----------------------------------------------------------------------------
(* token.rs: characters, modifiers, keys.                                  *)

LowerCaseOf ==
    [c \in {"A", "B", "C", "D", "S", "U", "P", "E", "R", "H", "I", "F", "T",
            "G", "L", "M", "N", "O", "Y"} |->
        CASE c = "A" -> "a" [] c = "B" -> "b" [] c = "C" -> "c" [] c = "D" -> "d"
          [] c = "S" -> "s" [] c = "U" -> "u" [] c = "P" -> "p" [] c = "E" -> "e"
          [] c = "R" -> "r" [] c = "H" -> "h" [] c = "I" -> "i" [] c = "F" -> "f"
          [] c = "T" -> "t" [] c = "G" -> "g" [] c = "L" -> "l" [] c = "M" -> "m"
          [] c = "N" -> "n" [] c = "O" -> "o" [] c = "Y" -> "y"]

\* the text is left as written
to_lowercase_kept(s) == s

\* str::to_lowercase, character by character
to_lowercase(s) ==
    [i \in DOMAIN s |-> IF s[i] \in DOMAIN LowerCaseOf THEN LowerCaseOf[s[i]] ELSE s[i]]

\* the code points of the characters the model's files use
CharCode ==
    [c \in {"-", "1", "2", "3", "9", ":", ";", "A", "B", "C", "D", "a", "b", "c", "d", "e'"} |->
        CASE c = "-" -> 45 [] c = "1" -> 49 [] c = "2" -> 50 [] c = "3" -> 51
          [] c = "9" -> 57 [] c = ":" -> 58 [] c = ";" -> 59
          [] c = "A" -> 65 [] c = "B" -> 66 [] c = "C" -> 67 [] c = "D" -> 68
          [] c = "a" -> 97 [] c = "b" -> 98 [] c = "c" -> 99 [] c = "d" -> 100
          [] c = "e'" -> 233]

\* char::to_string of a code point; "?" stands for a character outside the table
CharOf(n) ==
    IF \E c \in DOMAIN CharCode : CharCode[c] = n
    THEN CHOOSE c \in DOMAIN CharCode : CharCode[c] = n
    ELSE "?"

\* char::is_ascii
is_ascii(n) == n < 128

Modifiers == {"Super", "Alt", "Altgr", "Control", "Shift", "Any", "Omission"}

\* each name is a modifier of its own
ModifierFromName(repr) ==
    LET v == to_lowercase(repr)
    IN CASE v = <<"c", "t", "r", "l">> -> "Control"
         [] v = <<"c", "o", "n", "t", "r", "o", "l">> -> "Control, by its long name"
         [] v = <<"s", "u", "p", "e", "r">> -> "Super"
         [] v = <<"m", "o", "d", "4">> -> "Mod4"
         [] v = <<"m", "e", "t", "a">> -> "Meta"
         [] v = <<"a", "l", "t">> -> "Alt"
         [] v = <<"m", "o", "d", "1">> -> "Mod1"
         [] v = <<"a", "l", "t", "g", "r">> -> "Altgr"
         [] v = <<"m", "o", "d", "5">> -> "Mod5"
         [] v = <<"s", "h", "i", "f", "t">> -> "Shift"
         [] v = <<"a", "n", "y">> -> "Any"
         [] v = <<"_">> -> "Omission"
         [] OTHER -> "panic"

\* impl From<ModifierRepr> for Modifier; the grammar admits no other name
ModifierFrom(repr) ==
    LET v == to_lowercase(repr)
    IN CASE v = <<"c", "t", "r", "l">> -> "Control"
         [] v = <<"c", "o", "n", "t", "r", "o", "l">> -> "Control"
         [] v = <<"s", "u", "p", "e", "r">> -> "Super"
         [] v = <<"m", "o", "d", "4">> -> "Super"
         [] v = <<"m", "e", "t", "a">> -> "Super"
         [] v = <<"a", "l", "t">> -> "Alt"
         [] v = <<"m", "o", "d", "1">> -> "Alt"
         [] v = <<"a", "l", "t", "g", "r">> -> "Altgr"
         [] v = <<"m", "o", "d", "5">> -> "Altgr"
         [] v = <<"s", "h", "i", "f", "t">> -> "Shift"
         [] v = <<"a", "n", "y">> -> "Any"
         [] v = <<"_">> -> "Omission"
         [] OTHER -> "panic"

\* KeyAttribute: the set of the flags that are set (None is the empty set)
KeyAttributeNone == {}
KeyAttributeSend == {"Send"}
KeyAttributeOnRelease == {"OnRelease"}

\* evdev_mappings.rs KEY_MAP, the entries the model's files use
KEY_MAP ==
    [k \in {<<"a">>, <<"b">>, <<"c">>, <<"d">>, <<"1">>, <<"2">>, <<"3">>, <<"-">>,
            <<"9">>, <<";">>,
            <<"e", "n", "t", "e", "r">>, <<"r", "e", "t", "u", "r", "n">>} |->
        CASE k = <<"9">> -> "KEY_9" [] k = <<";">> -> "KEY_SEMICOLON"
          [] k = <<"a">> -> "KEY_A" [] k = <<"b">> -> "KEY_B"
          [] k = <<"c">> -> "KEY_C" [] k = <<"d">> -> "KEY_D"
          [] k = <<"1">> -> "KEY_1" [] k = <<"2">> -> "KEY_2"
          [] k = <<"3">> -> "KEY_3" [] k = <<"-">> -> "KEY_MINUS"
          [] k = <<"e", "n", "t", "e", "r">> -> "KEY_ENTER"
          [] k = <<"r", "e", "t", "u", "r", "n">> -> "KEY_ENTER"]

\* Result: Ok(v), or Err of a ParseError [kind, span, message, key, path, cap]
Ok(v) == [ok |-> TRUE, v |-> v]
NoSpan == Pair("none", "", <<>>)
\* no path: the error names no file
NoPath == 0
\* a u64 of three limbs, high * 2^44 + mid * 2^20 + low
U64(high, mid, low) == [high |-> high, mid |-> mid, low |-> low]
Zero == U64(0, 0, 0)
Err(kind, span, message, key, path, cap) ==
    [ok |-> FALSE, err |-> [kind |-> kind, span |-> span, message |-> message,
                            key |-> key, path |-> path, cap |-> cap]]
\* ParseError::Grammar of pest::error::Error::new_from_span(CustomError, span)
GrammarError(span, message) == Err("Grammar", span, message, <<>>, NoPath, Zero)
\* ParseError::InvalidKey(s)
InvalidKey(s) == Err("InvalidKey", NoSpan, "", s, NoPath, Zero)
\* ParseError::ConfigRead(ConfigReadError::ReadingConfig(io_error))
ReadingConfig == Err("ReadingConfig", NoSpan, "", <<>>, NoPath, Zero)
\* ParseError::ConfigRead(ConfigReadError::NotRegularFile(path))
NotRegularFile(path) == Err("NotRegularFile", NoSpan, "", <<>>, path, Zero)
\* ParseError::ConfigRead(ConfigReadError::TooLarge(path, mib_cap))
TooLarge(path, mib_cap) == Err("TooLarge", NoSpan, "", <<>>, path, mib_cap)

\* a name outside the table is taken for a key
convert_any(s) ==
    IF s \in DOMAIN KEY_MAP THEN Ok(KEY_MAP[s]) ELSE Ok("KEY_UNKNOWN")

\* evdev_mappings::convert
convert(s) ==
    IF s \in DOMAIN KEY_MAP THEN Ok(KEY_MAP[s]) ELSE InvalidKey(s)

\* impl TryFrom<KeyRepr> for Key
KeyTryFrom(repr) ==
    IF convert(repr.key).ok
    THEN Ok([key |-> convert(repr.key).v, attribute |-> repr.attribute])
    ELSE convert(repr.key)

----------------------------------------------------------------------------
(* lib.rs: keys, ranges, definitions.                                      *)

\* the `?` operator: the error of `r`, or what `F` makes of its value; `r` is
\* evaluated once
AndThen(r, F(_)) == CHOOSE y \in {IF x.ok THEN F(x.v) ELSE x : x \in {r}} : TRUE

\* unescape: a backslash and one character give the character
unescape(s) ==
    IF Len(s) = 2 /\ s[1] = "\\" THEN SubSeq(s, 2, 2) ELSE s

\* parse_key: the attribute is the union of the prefixes, the key the
\* lowercased, unescaped text of the (last) key_base or shorthand_allow pair
parse_key(component) ==
    LET inner == component.inner
        names == {i \in DOMAIN inner : inner[i].rule \in {"shorthand_allow", "key_base"}}
    IN [key |-> IF names = {} THEN <<>>
                ELSE unescape(to_lowercase(
                         inner[CHOOSE i \in names : \A j \in names : j <= i].str)),
        attribute |->
            (IF \E i \in DOMAIN inner : inner[i].rule = "send"
             THEN KeyAttributeSend ELSE KeyAttributeNone)
            \cup
            (IF \E i \in DOMAIN inner : inner[i].rule = "on_release"
             THEN KeyAttributeOnRelease ELSE KeyAttributeNone)]

\* range.rs Bounds::new
BoundsNew(pair) == [lower |-> pair.inner[1], upper |-> pair.inner[2], span |-> pair]

\* the order of the bounds is not looked at
verify_range_bounds_unordered(self, lower_bound, upper_bound) ==
    IF ~is_ascii(lower_bound) THEN GrammarError(self.span, "lower bound is not ASCII")
    ELSE IF ~is_ascii(upper_bound) THEN GrammarError(self.span, "upper bound is not ASCII")
    ELSE Ok(<<lower_bound, upper_bound>>)

\* range.rs Bounds::verify_range_bounds, and the Ok((lower, upper)) of its callers
verify_range_bounds(self, lower_bound, upper_bound) ==
    IF ~is_ascii(lower_bound) THEN GrammarError(self.span, "lower bound is not ASCII")
    ELSE IF ~is_ascii(upper_bound) THEN GrammarError(self.span, "upper bound is not ASCII")
    ELSE IF lower_bound > upper_bound
         THEN GrammarError(self.span, "lower bound is greater than upper bound")
    ELSE Ok(<<lower_bound, upper_bound>>)

\* range.rs Bounds::expand_keys, lines 34-52, on the two parsed bounds
ExpandKeyBounds(self, lower, upper) ==
    IF lower.attribute # upper.attribute
    THEN GrammarError(self.span, "range bounds must have the same timing attributes")
    ELSE verify_range_bounds(self, CharCode[lower.key[1]], CharCode[upper.key[1]])

\* range.rs Bounds::expand_keys: the two bounds as code points
expand_keys(self) == ExpandKeyBounds(self, parse_key(self.lower), parse_key(self.upper))

\* range.rs Bounds::expand_commands: the two bounds as code points
expand_commands(self) ==
    verify_range_bounds(self, CharCode[self.lower.str[1]], CharCode[self.upper.str[1]])

\* (lower..=upper).map(f).collect::<Result<Vec<_>, _>>(): the first error, or all
RECURSIVE CollectKeys(_, _, _)
CollectKeys(lo, hi, acc) ==
    IF lo > hi THEN Ok(acc)
    ELSE AndThen(KeyTryFrom([key |-> <<CharOf(lo)>>, attribute |-> KeyAttributeNone]),
                 LAMBDA key : CollectKeys(lo + 1, hi, Append(acc, key)))

\* DefinitionUncompiled::default
DefinitionUncompiledDefault == [modifiers |-> <<>>, keys |-> <<>>]

\* DefinitionUncompiled::ingest, the Rule::shorthand arm, for one inner pair
IngestShorthandPair(self, pair) ==
    CASE pair.rule = "key_in_shorthand" ->
            AndThen(KeyTryFrom(parse_key(pair)),
                    LAMBDA key : Ok([self EXCEPT !.keys = Append(@, key)]))
      [] pair.rule = "key_range" ->
            AndThen(expand_keys(BoundsNew(pair)),
                    LAMBDA bounds :
                        AndThen(CollectKeys(bounds[1], bounds[2], <<>>),
                                LAMBDA keys : Ok([self EXCEPT !.keys = @ \o keys])))
      [] OTHER -> Ok(self)

\* DefinitionUncompiled::ingest, the Rule::shorthand arm: the loop over its pairs
RECURSIVE IngestShorthand(_, _, _)
IngestShorthand(self, inner, i) ==
    IF i > Len(inner) THEN Ok(self)
    ELSE AndThen(IngestShorthandPair(self, inner[i]),
                 LAMBDA next : IngestShorthand(next, inner, i + 1))

\* DefinitionUncompiled::ingest
ingest(self, component) ==
    CASE component.rule = "modifier" ->
            Ok([self EXCEPT !.modifiers =
                    Append(@, <<ModifierFrom(to_lowercase(pair_to_string(component)))>>)])
      [] component.rule \in {"modifier_shorthand", "modifier_omit_shorthand"} ->
            Ok([self EXCEPT !.modifiers =
                    Append(@, [i \in DOMAIN component.inner |->
                                   ModifierFrom(pair_to_string(component.inner[i]))])])
      [] component.rule = "shorthand" -> IngestShorthand(self, component.inner, 1)
      [] component.rule = "key_normal" ->
            AndThen(KeyTryFrom(parse_key(component)),
                    LAMBDA key : Ok([self EXCEPT !.keys = Append(@, key)]))
      [] OTHER -> Ok(self)

\* itertools multi_cartesian_product of a non-empty list of lists: the first
\* list varies slowest
RECURSIVE multi_cartesian_product(_)
multi_cartesian_product(lists) ==
    IF Len(lists) = 1 THEN [i \in DOMAIN lists[1] |-> <<lists[1][i]>>]
    ELSE With(multi_cartesian_product(Tail(lists)),
              LAMBDA rest : Flatten([i \in DOMAIN lists[1] |->
                                       [j \in DOMAIN rest |-> <<lists[1][i]>> \o rest[j]]]))

\* the left operand varies fastest
cartesian_product_left_fastest(xs, ys) ==
    Flatten([j \in DOMAIN ys |-> [i \in DOMAIN xs |-> <<xs[i], ys[j]>>]])

\* itertools cartesian_product: the right operand varies fastest
cartesian_product(xs, ys) ==
    Flatten([i \in DOMAIN xs |-> [j \in DOMAIN ys |-> <<xs[i], ys[j]>>]])

\* DefinitionUncompiled::compile, lines 297-305
CompileProduct(product) ==
    [n \in DOMAIN product |-> [modifiers |-> Range(product[n][1]), key |-> product[n][2]]]

\* DefinitionUncompiled::compile
compile(self) ==
    IF self.modifiers = <<>>
    THEN [k \in DOMAIN self.keys |-> [modifiers |-> {}, key |-> self.keys[k]]]
    ELSE CompileProduct(cartesian_product(multi_cartesian_product(self.modifiers), self.keys))

\* the loop of unbind_parser over the definition's pairs
RECURSIVE IngestAll(_, _, _)
IngestAll(self, inner, i) ==
    IF i > Len(inner) THEN Ok(self)
    ELSE AndThen(ingest(self, inner[i]), LAMBDA next : IngestAll(next, inner, i + 1))

\* unbind_parser
unbind_parser(pair) ==
    AndThen(IngestAll(DefinitionUncompiledDefault, pair.inner, 1),
            LAMBDA uncompiled : Ok(compile(uncompiled)))

\* import_parser: the paths of the import_file pairs
import_parser(pair) ==
    {pair_to_string(pair.inner[i])[1] :
        i \in {i \in DOMAIN pair.inner : pair.inner[i].rule = "import_file"}}

----------------------------------------------------------------------------
(* lib.rs: commands, bindings, modes.                                      *)

\* the upper bound is left out
RangeStringsExclusive(lo, hi) == [n \in 1..(hi - lo) |-> <<CharOf(lo + n - 1)>>]

\* (lower_bound..=upper_bound).map(|key| key.to_string())
RangeStrings(lo, hi) == [n \in 1..(hi - lo + 1) |-> <<CharOf(lo + n - 1)>>]

\* parse_command_shorthand, for one inner pair
CommandVariants(command_variants, pair) ==
    CASE pair.rule = "command_component" -> Ok(Append(command_variants, pair_to_string(pair)))
      [] pair.rule = "range" ->
            AndThen(expand_commands(BoundsNew(pair)),
                    LAMBDA bounds : Ok(command_variants \o RangeStrings(bounds[1], bounds[2])))
      [] OTHER -> Ok(command_variants)

\* parse_command_shorthand: the loop over the shorthand's pairs
RECURSIVE parse_command_shorthand_loop(_, _, _)
parse_command_shorthand_loop(command_variants, inner, i) ==
    IF i > Len(inner) THEN Ok(command_variants)
    ELSE AndThen(CommandVariants(command_variants, inner[i]),
                 LAMBDA next : parse_command_shorthand_loop(next, inner, i + 1))

\* parse_command_shorthand
parse_command_shorthand(pair) == parse_command_shorthand_loop(<<>>, pair.inner, 1)

\* ModeInstruction
Enter(name) == [tag |-> "Enter", name |-> name]
Escape == [tag |-> "Escape", name |-> <<>>]

\* comm.last().is_some_and(|last| last.len() == 1 && last[0] == "&&")
LastIsAmpersand(comm) ==
    /\ comm # <<>>
    /\ Len(comm[Len(comm)]) = 1
    /\ comm[Len(comm)][1] = <<"&&">>

\* an escape never takes back an enter
CommandPieceNeverPops(acc, sub) ==
    CASE sub.rule = "command_standalone" ->
            Ok([acc EXCEPT !.comm = Append(@, <<pair_to_string(sub)>>)])
      [] sub.rule = "command_shorthand" ->
            AndThen(parse_command_shorthand(sub),
                    LAMBDA variants : Ok([acc EXCEPT !.comm = Append(@, variants)]))
      [] sub.rule = "command_double_ampersand" ->
            IF LastIsAmpersand(acc.comm) THEN Ok(acc)
            ELSE Ok([acc EXCEPT !.comm = Append(@, <<pair_to_string(sub)>>)])
      [] sub.rule = "enter_mode" ->
            Ok([acc EXCEPT !.mode_enters = Append(@, Enter(pair_to_string(sub.inner[1])))])
      [] sub.rule = "escape_mode" ->
            Ok([acc EXCEPT !.mode_escapes = Append(@, Escape)])
      [] OTHER -> Ok(acc)

\* binding_parser, lines 369-397: one pair of the command
CommandPiece(acc, sub) ==
    CASE sub.rule = "command_standalone" ->
            Ok([acc EXCEPT !.comm = Append(@, <<pair_to_string(sub)>>)])
      [] sub.rule = "command_shorthand" ->
            AndThen(parse_command_shorthand(sub),
                    LAMBDA variants : Ok([acc EXCEPT !.comm = Append(@, variants)]))
      [] sub.rule = "command_double_ampersand" ->
            IF LastIsAmpersand(acc.comm) THEN Ok(acc)
            ELSE Ok([acc EXCEPT !.comm = Append(@, <<pair_to_string(sub)>>)])
      [] sub.rule = "enter_mode" ->
            Ok([acc EXCEPT !.mode_enters = Append(@, Enter(pair_to_string(sub.inner[1])))])
      [] sub.rule = "escape_mode" ->
            IF acc.mode_enters # <<>>
            THEN Ok([acc EXCEPT !.mode_enters = SubSeq(@, 1, Len(@) - 1)])
            ELSE Ok([acc EXCEPT !.mode_escapes = Append(@, Escape)])
      [] OTHER -> Ok(acc)

\* binding_parser, line 368: the loop over the command's pairs
RECURSIVE CommandLoop(_, _, _)
CommandLoop(acc, subs, i) ==
    IF i > Len(subs) THEN Ok(acc)
    ELSE AndThen(CommandPiece(acc, subs[i]), LAMBDA next : CommandLoop(next, subs, i + 1))

\* binding_parser, lines 366-401: one pair of the declaration
Component(acc, component) ==
    IF component.rule = "command" THEN CommandLoop(acc, component.inner, 1)
    ELSE AndThen(ingest(acc.uncompiled, component),
                 LAMBDA uncompiled : Ok([acc EXCEPT !.uncompiled = uncompiled]))

\* binding_parser, line 365: the loop over the declaration's pairs
RECURSIVE ComponentLoop(_, _, _)
ComponentLoop(acc, components, i) ==
    IF i > Len(components) THEN Ok(acc)
    ELSE AndThen(Component(acc, components[i]),
                 LAMBDA next : ComponentLoop(next, components, i + 1))

\* comm.into_iter().multi_cartesian_product().map(|c| c.join("")).collect_vec()
JoinAll(product) == [n \in DOMAIN product |-> Flatten(product[n])]
command_cartesian_product(comm) == JoinAll(multi_cartesian_product(comm))

\* the Omission marker stays in the modifier set
RemoveOmissionKept(binding) == binding

\* binding.definition.modifiers.remove(&Modifier::Omission)
RemoveOmission(binding) ==
    [binding EXCEPT !.definition.modifiers = @ \ {"Omission"}]

\* the two products are zipped without comparing their lengths
BindingsZipped(pair, bind_cartesian_product, commands, mode_instructions) ==
    Ok([n \in 1..(IF Len(commands) < Len(bind_cartesian_product)
                  THEN Len(commands) ELSE Len(bind_cartesian_product)) |->
           RemoveOmission([definition |-> bind_cartesian_product[n],
                           command |-> commands[n],
                           mode_instructions |-> mode_instructions])])

\* binding_parser, lines 409-442, on the two products
Bindings(pair, bind_cartesian_product, commands, mode_instructions) ==
    IF Len(bind_cartesian_product) # Len(commands)
    THEN GrammarError(pair, "binding variants do not equal command variants")
    ELSE Ok([n \in DOMAIN bind_cartesian_product |->
                RemoveOmission([definition |-> bind_cartesian_product[n],
                                command |-> commands[n],
                                mode_instructions |-> mode_instructions])])

\* the escapes are put before the enters
binding_parser_escapes_first(pair) ==
    AndThen(ComponentLoop([comm |-> <<>>, mode_enters |-> <<>>, mode_escapes |-> <<>>,
                           uncompiled |-> DefinitionUncompiledDefault],
                          pair.inner, 1),
            LAMBDA looped :
                Bindings(pair, compile(looped.uncompiled),
                         command_cartesian_product(looped.comm),
                         looped.mode_escapes \o looped.mode_enters))

\* binding_parser
binding_parser(pair) ==
    AndThen(ComponentLoop([comm |-> <<>>, mode_enters |-> <<>>, mode_escapes |-> <<>>,
                           uncompiled |-> DefinitionUncompiledDefault],
                          pair.inner, 1),
            LAMBDA looped :
                Bindings(pair, compile(looped.uncompiled),
                         command_cartesian_product(looped.comm),
                         looped.mode_enters \o looped.mode_escapes))

\* Mode::default
ModeDefault ==
    [name |-> <<>>, oneoff |-> FALSE, swallow |-> FALSE, bindings |-> <<>>, unbinds |-> <<>>]

\* mode_parser, lines 342-349: one pair of the block
ModeComponent(mode, component) ==
    CASE component.rule = "modename" -> Ok([mode EXCEPT !.name = component.str])
      [] component.rule = "binding" ->
            AndThen(binding_parser(component),
                    LAMBDA bindings : Ok([mode EXCEPT !.bindings = @ \o bindings]))
      [] component.rule = "unbind" ->
            AndThen(unbind_parser(component),
                    LAMBDA unbinds : Ok([mode EXCEPT !.unbinds = @ \o unbinds]))
      [] component.rule = "oneoff" -> Ok([mode EXCEPT !.oneoff = TRUE])
      [] component.rule = "swallow" -> Ok([mode EXCEPT !.swallow = TRUE])
      [] OTHER -> Ok(mode)

\* mode_parser, line 341: the loop over the block's pairs
RECURSIVE mode_parser_loop(_, _, _)
mode_parser_loop(mode, inner, i) ==
    IF i > Len(inner) THEN Ok(mode)
    ELSE AndThen(ModeComponent(mode, inner[i]),
                 LAMBDA next : mode_parser_loop(next, inner, i + 1))

\* mode_parser
mode_parser(pair) == mode_parser_loop(ModeDefault, pair.inner, 1)

----------------------------------------------------------------------------
(* The files of the model: the pairs the grammar yields, by rule.          *)

Modifier(name) == Pair("modifier", name, <<>>)
Omission == Pair("omission", <<"_">>, <<>>)
ModifierShorthand(alternatives) == Pair("modifier_shorthand", <<>>, alternatives)
ModifierOmitShorthand(alternatives) == Pair("modifier_omit_shorthand", <<>>, alternatives)
KeyNormal(prefixes, name) ==
    Pair("key_normal", <<>>, prefixes \o <<Pair("key_base", name, <<>>)>>)
KeyInShorthand(prefixes, name) ==
    Pair("key_in_shorthand", <<>>, prefixes \o <<Pair("shorthand_allow", name, <<>>)>>)
Shorthand(keys) == Pair("shorthand", <<>>, keys)
Send == Pair("send", <<"~">>, <<>>)
OnRelease == Pair("on_release", <<"@">>, <<>>)
CommandStandalone(text) == Pair("command_standalone", text, <<>>)
CommandComponent(text) == Pair("command_component", text, <<>>)
CommandShorthand(alternatives) == Pair("command_shorthand", <<>>, alternatives)
CommandDoubleAmpersand == Pair("command_double_ampersand", <<"&&">>, <<>>)
EnterMode(name) == Pair("enter_mode", <<>>, <<Pair("modename", name, <<>>)>>)
EscapeMode == Pair("escape_mode", <<>>, <<>>)
Command(pieces) == Pair("command", <<>>, pieces)
Binding(definition, pieces) == Pair("binding", <<>>, definition \o <<Command(pieces)>>)
Unbind(definition) == Pair("unbind", <<>>, definition)
Import(path) == Pair("import", <<>>, <<Pair("import_file", <<path>>, <<>>)>>)
ModeBlock(name, attributes, body) ==
    Pair("mode", <<>>, <<Pair("modename", name, <<>>)>> \o attributes \o body)

super == <<"s", "u", "p", "e", "r">>
shift == <<"s", "h", "i", "f", "t">>

\* the character that names file `path` in its commands and in its own key
Tag(path) == CharOf(48 + path)

\* `a` bound to a command that names the file
SharedBody(path) ==
    <<Binding(<<KeyNormal(<<>>, <<"a">>)>>, <<CommandStandalone(<<Tag(path)>>)>>)>>

\* a key no other file binds
OwnBody(path) ==
    <<Binding(<<KeyNormal(<<>>, <<Tag(path)>>)>>, <<CommandStandalone(<<Tag(path)>>)>>)>>

\* one definition bound three times, once by two variants that omission
\* stripping makes equal:
\*   a / x @escape     super + {_, super +} a / {u, v}      b / y      A / z
DuplicateBody(path) ==
    <<Binding(<<KeyNormal(<<>>, <<"a">>)>>,
              <<CommandStandalone(<<Tag(path), "x">>), EscapeMode>>),
      Binding(<<Modifier(super), ModifierOmitShorthand(<<Omission, Modifier(super)>>),
                KeyNormal(<<>>, <<"a">>)>>,
              <<CommandStandalone(<<Tag(path)>>),
                CommandShorthand(<<CommandComponent(<<"u">>), CommandComponent(<<"v">>)>>)>>),
      Binding(<<KeyNormal(<<>>, <<"b">>)>>, <<CommandStandalone(<<Tag(path), "y">>)>>),
      Binding(<<KeyNormal(<<>>, <<"A">>)>>, <<CommandStandalone(<<Tag(path), "z">>)>>)>>

\* ignore lines before and after the bindings they name:
\*   ignore a      a / ..      b / ..      ignore b
IgnoreBody(path) ==
    <<Unbind(<<KeyNormal(<<>>, <<"a">>)>>),
      Binding(<<KeyNormal(<<>>, <<"a">>)>>, <<CommandStandalone(<<Tag(path)>>)>>),
      Binding(<<KeyNormal(<<>>, <<"b">>)>>, <<CommandStandalone(<<Tag(path)>>)>>),
      Unbind(<<KeyNormal(<<>>, <<"b">>)>>)>>

\* a mode block and an omission shorthand:
\*   mode m swallow { super + {_, shift +} a / {p, q}    a / r   a / s   ignore a }
\*   super + {_, shift +} b / {f, g} @enter m
ModeBody(path) ==
    <<ModeBlock(<<"m">>, <<Pair("swallow", <<>>, <<>>)>>,
        <<Binding(<<Modifier(super), ModifierOmitShorthand(<<Omission, Modifier(shift)>>),
                    KeyNormal(<<>>, <<"a">>)>>,
                  <<CommandShorthand(<<CommandComponent(<<"p">>),
                                       CommandComponent(<<"q">>)>>)>>),
          Binding(<<KeyNormal(<<>>, <<"a">>)>>, <<CommandStandalone(<<"r">>), EscapeMode>>),
          Binding(<<KeyNormal(<<>>, <<"a">>)>>, <<CommandStandalone(<<"s">>)>>),
          Unbind(<<KeyNormal(<<>>, <<"a">>)>>)>>),
      Binding(<<Modifier(super), ModifierOmitShorthand(<<Omission, Modifier(shift)>>),
                KeyNormal(<<>>, <<"b">>)>>,
              <<CommandShorthand(<<CommandComponent(<<"f">>), CommandComponent(<<"g">>)>>),
                CommandStandalone(<<Tag(path)>>), EnterMode(<<"m">>)>>)>>

\* three definitions and two commands:  super + {a, b, c} / {f, g}
ParityBody(path) ==
    <<Binding(<<KeyNormal(<<>>, <<"a">>)>>, <<CommandStandalone(<<Tag(path)>>)>>),
      Binding(<<Modifier(super),
                Shorthand(<<KeyInShorthand(<<>>, <<"a">>), KeyInShorthand(<<>>, <<"b">>),
                            KeyInShorthand(<<>>, <<"c">>)>>)>>,
              <<CommandShorthand(<<CommandComponent(<<"f">>),
                                   CommandComponent(<<"g">>)>>)>>)>>

\* a key range whose lower bound is the greater, in a mode block:
\*   a / ..      mode m { {c-a} / x }
RangeBody(path) ==
    <<Binding(<<KeyNormal(<<>>, <<"a">>)>>, <<CommandStandalone(<<Tag(path)>>)>>),
      ModeBlock(<<"m">>, <<>>,
        <<Binding(<<Shorthand(<<Pair("key_range", <<>>,
                                     <<KeyInShorthand(<<>>, <<"c">>),
                                       KeyInShorthand(<<>>, <<"a">>)>>)>>)>>,
                  <<CommandStandalone(<<"x">>)>>)>>)>>

\* a key name that is no evdev key:  a / ..      ignore aa
InvalidKeyBody(path) ==
    <<Binding(<<KeyNormal(<<>>, <<"a">>)>>, <<CommandStandalone(<<Tag(path)>>)>>),
      Unbind(<<KeyNormal(<<>>, <<"a", "a">>)>>)>>

\* a key every file binds between two definitions no other file binds:
\*   <tag> / ..      a / ..      super + <tag> / ..
PairBody(path) ==
    <<Binding(<<KeyNormal(<<>>, <<Tag(path)>>)>>, <<CommandStandalone(<<Tag(path), "k">>)>>),
      Binding(<<KeyNormal(<<>>, <<"a">>)>>, <<CommandStandalone(<<Tag(path)>>)>>),
      Binding(<<Modifier(super), KeyNormal(<<>>, <<Tag(path)>>)>>,
              <<CommandStandalone(<<Tag(path), "s">>)>>)>>

\* an ignore line with the omission alternative, after the binding it names:
\*   super + {_, shift +} b / {f, g}      a / ..      ignore super + {_, shift +} b
OmitIgnoreBody(path) ==
    <<Binding(<<Modifier(super), ModifierOmitShorthand(<<Omission, Modifier(shift)>>),
                KeyNormal(<<>>, <<"b">>)>>,
              <<CommandShorthand(<<CommandComponent(<<"f">>), CommandComponent(<<"g">>)>>),
                CommandStandalone(<<Tag(path)>>)>>),
      Binding(<<KeyNormal(<<>>, <<"a">>)>>, <<CommandStandalone(<<Tag(path)>>)>>),
      Unbind(<<Modifier(super), ModifierOmitShorthand(<<Omission, Modifier(shift)>>),
               KeyNormal(<<>>, <<"b">>)>>)>>

\* ignore lines that name a binding, a binding but for its attribute, and
\* no binding:   ~a / .. @enter m      a / ..      b / ..      ignore a      ignore c
AttributeBody(path) ==
    <<Binding(<<KeyNormal(<<Send>>, <<"a">>)>>,
              <<CommandStandalone(<<Tag(path), "x">>), EnterMode(<<"m">>)>>),
      Binding(<<KeyNormal(<<>>, <<"a">>)>>, <<CommandStandalone(<<Tag(path)>>)>>),
      Binding(<<KeyNormal(<<>>, <<"b">>)>>, <<CommandStandalone(<<Tag(path), "y">>)>>),
      Unbind(<<KeyNormal(<<>>, <<"a">>)>>),
      Unbind(<<KeyNormal(<<>>, <<"c">>)>>)>>

\* the bodies a file may have, by number
Body(path, body) ==
    CASE body = 1 -> SharedBody(path)
      [] body = 2 -> OwnBody(path)
      [] body = 3 -> DuplicateBody(path)
      [] body = 4 -> IgnoreBody(path)
      [] body = 5 -> ModeBody(path)
      [] body = 6 -> ParityBody(path)
      [] body = 7 -> RangeBody(path)
      [] body = 8 -> InvalidKeyBody(path)
      [] body = 9 -> PairBody(path)
      [] body = 10 -> OmitIgnoreBody(path)
      [] body = 11 -> AttributeBody(path)

\* the pairs of a file: its include lines, least path first, stand before its
\* body when its path is odd and after it when its path is even
Contents(file, path) ==
    LET includes == SortedSeq(file.includes)
        lines == [i \in DOMAIN includes |-> Import(includes[i])]
    IN IF path % 2 = 1 THEN lines \o Body(path, file.body)
       ELSE Body(path, file.body) \o lines


----------------------------------------------------------------------------
(* lib.rs: SwhkdParser::from and SwhkdParser::as_import.                   *)

\* the binding is pushed whether or not its definition is bound
MergeBindingAlwaysPushes(bindings, binding) == Append(bindings, binding)

\* the binding bound first is dropped and the new one is pushed at the end
MergeBindingMovesToEnd(bindings, binding) ==
    LET i == Position([n \in DOMAIN bindings |-> bindings[n].definition],
                      {binding.definition})
    IN Append(IF i # 0 THEN RemoveAt(bindings, i) ELSE bindings, binding)

\* lines 121-129 and 150-158: a binding whose definition is already bound
\* replaces the command and mode instructions of the first such binding
MergeBinding(bindings, binding) ==
    LET i == Position([n \in DOMAIN bindings |-> bindings[n].definition],
                      {binding.definition})
    IN IF i # 0
       THEN [bindings EXCEPT ![i].command = binding.command,
                             ![i].mode_instructions = binding.mode_instructions]
       ELSE Append(bindings, binding)

\* the loops `for binding in binding_parser(decl)?` and `for binding in child.bindings`
RECURSIVE MergeBindings(_, _)
MergeBindings(bindings, new) ==
    IF new = <<>> THEN bindings
    ELSE With(MergeBinding(bindings, Head(new)),
              LAMBDA merged : MergeBindings(merged, Tail(new)))

\* the unbinds are collected and never applied
ApplyUnbindsSkipped(bindings, unbinds) == bindings

\* an unbind removes the first binding with its modifiers and its evdev key,
\* whatever the attribute
RECURSIVE ApplyUnbindsAnyAttribute(_, _)
ApplyUnbindsAnyAttribute(bindings, unbinds) ==
    IF unbinds = <<>> THEN bindings
    ELSE With(Position([n \in DOMAIN bindings |->
                           <<bindings[n].definition.modifiers, bindings[n].definition.key.key>>],
                       {<<Head(unbinds).modifiers, Head(unbinds).key.key>>}),
              LAMBDA i : With(IF i # 0 THEN RemoveAt(bindings, i) ELSE bindings,
                              LAMBDA removed :
                                  ApplyUnbindsAnyAttribute(removed, Tail(unbinds))))

\* from, lines 93-97: each unbind removes the first binding with its definition
RECURSIVE ApplyUnbinds(_, _)
ApplyUnbinds(bindings, unbinds) ==
    IF unbinds = <<>> THEN bindings
    ELSE With(Position([n \in DOMAIN bindings |-> bindings[n].definition], {Head(unbinds)}),
              LAMBDA i : With(IF i # 0 THEN RemoveAt(bindings, i) ELSE bindings,
                              LAMBDA removed : ApplyUnbinds(removed, Tail(unbinds))))

\* u64 << 20: the bits shifted past bit 63 (the high limb and the upper 20
\* bits of the middle limb) are lost, the low limb becomes zero
Shl20(v) == U64(v.mid \div 16, v.low + (v.mid % 16) * 2^20, 0)

\* a > b of two u64
Greater(a, b) ==
    \/ a.high > b.high
    \/ a.high = b.high /\ a.mid > b.mid
    \/ a.high = b.high /\ a.mid = b.mid /\ a.low > b.low

\* what option_env!("FILESIZE_CAP_MIB") finds: no variable, a text that
\* str::parse::<u64> refuses, or the digits of a u64
Unset == [kind |-> "unset", value |-> Zero]
NotInteger == [kind |-> "text", value |-> Zero]
Digits(value) == [kind |-> "digits", value |-> value]

\* unwrap_or(50)
DefaultCap == U64(0, 0, 50)

\* read_config, lines 79-81
MibCap(variable) == IF variable.kind = "digits" THEN variable.value ELSE DefaultCap

\* read_config, line 82
SizeTooLarge(size, mib_cap) == Greater(size, Shl20(mib_cap))

\* read_config, lines 71-86: the text of the file at `path`, here the file
\* itself; a regular file is one read_to_string can read
read_config(path) ==
    LET stat == fs[path]
    IN IF stat.kind = "absent" THEN ReadingConfig
       ELSE IF stat.kind # "file" THEN NotRegularFile(path)
       ELSE IF SizeTooLarge(stat.size, MibCap(env)) THEN TooLarge(path, MibCap(env))
       ELSE Ok(stat)

\* as_import, lines 106-107: SwhkdGrammar::parse(Rule::main, &raw); body 0 is
\* a text the grammar refuses
SwhkdGrammarParse(raw, source) ==
    IF raw.body = 0 THEN Err("Grammar", NoSpan, "", <<>>, source, Zero)
    ELSE Ok(Contents(raw, source))

\* as_import, lines 101-111: the contents of the source, read and parsed
ParseSource(path) ==
    AndThen(read_config(path), LAMBDA raw : SwhkdGrammarParse(raw, path))

\* as_import, lines 101-116: the call's locals once the source is parsed;
\* `next` is the place of the loop over the contents
Frame(path, contents) ==
    [source |-> path, contents |-> contents, next |-> 1,
     bindings |-> <<>>, unbinds |-> <<>>, imports |-> {}, modes |-> <<>>]

top == stack[Len(stack)]
SetTop(frame) == [stack EXCEPT ![Len(stack)] = frame]

\* the `for decl in contents.into_inner()` loop stands at a declaration
AtDecl(rule) ==
    /\ pc = "run"
    /\ top.next <= Len(top.contents)
    /\ top.contents[top.next].rule = rule

\* the declarations are done: the `while let Some(import)` loop runs
AtImports == pc = "run" /\ top.next > Len(top.contents)

\* the error is dropped and from returns what the calls in progress collected
FailReturnsCollected(error) ==
    /\ pc' = "done"
    /\ stack' = <<>>
    /\ result' = Ok([bindings |-> IF stack = <<>> THEN <<>> ELSE stack[1].bindings,
                     unbinds |-> <<>>, imports |-> seen, modes |-> <<>>])

\* an error returned with `?` ends every call in progress, and from
Fail(error) ==
    /\ pc' = "done"
    /\ stack' = <<>>
    /\ result' = [ok |-> FALSE, err |-> error.err]

\* from, line 91, as_import lines 101-111: the root source is read and parsed
From ==
    /\ pc = "start"
    /\ order' = <<input>>
    /\ \E contents \in {ParseSource(input)} :
          IF contents.ok
          THEN /\ pc' = "run"
               /\ stack' = <<Frame(input, contents.v)>>
               /\ UNCHANGED result
          ELSE Fail(contents)
    /\ UNCHANGED <<fs, input, seen, harness>>

\* as_import, lines 119-131
DeclBinding ==
    /\ AtDecl("binding")
    /\ \E bindings \in {binding_parser(top.contents[top.next])} :
          IF bindings.ok
          THEN /\ stack' = SetTop([top EXCEPT !.bindings = MergeBindings(@, bindings.v),
                                              !.next = @ + 1])
               /\ UNCHANGED <<pc, result>>
          ELSE Fail(bindings)
    /\ UNCHANGED <<fs, input, seen, order, harness>>

\* as_import, line 132
DeclUnbind ==
    /\ AtDecl("unbind")
    /\ \E unbinds \in {unbind_parser(top.contents[top.next])} :
          IF unbinds.ok
          THEN /\ stack' = SetTop([top EXCEPT !.unbinds = @ \o unbinds.v, !.next = @ + 1])
               /\ UNCHANGED <<pc, result>>
          ELSE Fail(unbinds)
    /\ UNCHANGED <<fs, input, seen, order, harness>>

\* the bindings and unbinds of the block are stored in the file's own as well
DeclModeLeaks ==
    /\ AtDecl("mode")
    /\ \E mode \in {mode_parser(top.contents[top.next])} :
          IF mode.ok
          THEN /\ stack' = SetTop([top EXCEPT !.modes = Append(@, mode.v),
                                              !.bindings = MergeBindings(@, mode.v.bindings),
                                              !.unbinds = @ \o mode.v.unbinds,
                                              !.next = @ + 1])
               /\ UNCHANGED <<pc, result>>
          ELSE Fail(mode)
    /\ UNCHANGED <<fs, input, seen, order, harness>>

\* as_import, line 133
DeclMode ==
    /\ AtDecl("mode")
    /\ \E mode \in {mode_parser(top.contents[top.next])} :
          IF mode.ok
          THEN /\ stack' = SetTop([top EXCEPT !.modes = Append(@, mode.v), !.next = @ + 1])
               /\ UNCHANGED <<pc, result>>
          ELSE Fail(mode)
    /\ UNCHANGED <<fs, input, seen, order, harness>>

\* as_import, line 134
DeclImport ==
    /\ AtDecl("import")
    /\ stack' = SetTop([top EXCEPT !.imports = @ \cup import_parser(top.contents[top.next]),
                                   !.next = @ + 1])
    /\ UNCHANGED <<fs, input, pc, seen, result, order, harness>>

\* the greatest path is popped
PopLast(imports) == CHOOSE p \in imports : \A q \in imports : q <= p

\* BTreeSet::pop_first
First(imports) == CHOOSE p \in imports : \A q \in imports : p <= q

\* as_import, lines 142-145: the popped path was seen already
ImportSeen ==
    /\ AtImports
    /\ top.imports # {}
    /\ First(top.imports) \in seen
    /\ stack' = SetTop([top EXCEPT !.imports = @ \ {First(top.imports)}])
    /\ UNCHANGED <<fs, input, pc, seen, result, order, harness>>

\* a cap on the files one call of from parses; the guard of ImportCall keeps
\* the model finite whatever the `seen` check does
ParseCap == 2 * Cardinality(DOMAIN fs) + 2

\* the popped path is read and parsed and never recorded in `seen`
ImportCallUnrecorded ==
    /\ AtImports
    /\ Len(order) < ParseCap
    /\ top.imports # {}
    /\ First(top.imports) \notin seen
    /\ \E import \in {First(top.imports)} :
          /\ order' = Append(order, import)
          /\ \E contents \in {ParseSource(import)} :
                IF contents.ok
                THEN /\ stack' = Append(SetTop([top EXCEPT !.imports = @ \ {import}]),
                                        Frame(import, contents.v))
                     /\ UNCHANGED <<pc, result>>
                ELSE Fail(contents)
    /\ UNCHANGED <<fs, input, seen, harness>>

\* as_import, lines 142-146 and 101-116: the popped path is new; it is
\* recorded, read, parsed and as_import runs on it
ImportCall ==
    /\ AtImports
    /\ Len(order) < ParseCap
    /\ top.imports # {}
    /\ First(top.imports) \notin seen
    /\ \E import \in {First(top.imports)} :
          /\ seen' = seen \cup {import}
          /\ order' = Append(order, import)
          /\ \E contents \in {ParseSource(import)} :
                IF contents.ok
                THEN /\ stack' = Append(SetTop([top EXCEPT !.imports = @ \ {import}]),
                                        Frame(import, contents.v))
                     /\ UNCHANGED <<pc, result>>
                ELSE Fail(contents)
    /\ UNCHANGED <<fs, input, harness>>

\* the child's bindings are not merged into its caller's
ImportReturnDropsBindings ==
    /\ AtImports
    /\ top.imports = {}
    /\ Len(stack) > 1
    /\ LET child == top
           parent == stack[Len(stack) - 1]
       IN stack' = [SubSeq(stack, 1, Len(stack) - 1) EXCEPT ![Len(stack) - 1] =
                       [parent EXCEPT !.imports = @ \cup child.imports,
                                      !.unbinds = @ \o child.unbinds,
                                      !.modes = @ \o child.modes]]
    /\ UNCHANGED <<fs, input, pc, seen, result, order, harness>>

\* the child's unbinds and modes are not appended to its caller's
ImportReturnDropsUnbinds ==
    /\ AtImports
    /\ top.imports = {}
    /\ Len(stack) > 1
    /\ LET child == top
           parent == stack[Len(stack) - 1]
       IN stack' = [SubSeq(stack, 1, Len(stack) - 1) EXCEPT ![Len(stack) - 1] =
                       [parent EXCEPT !.imports = @ \cup child.imports,
                                      !.bindings = MergeBindings(@, child.bindings)]]
    /\ UNCHANGED <<fs, input, pc, seen, result, order, harness>>

\* the child's bindings come before its caller's
ImportReturnPrepends ==
    /\ AtImports
    /\ top.imports = {}
    /\ Len(stack) > 1
    /\ LET child == top
           parent == stack[Len(stack) - 1]
       IN stack' = [SubSeq(stack, 1, Len(stack) - 1) EXCEPT ![Len(stack) - 1] =
                       [parent EXCEPT !.imports = @ \cup child.imports,
                                      !.bindings = MergeBindings(child.bindings, @),
                                      !.unbinds = @ \o child.unbinds,
                                      !.modes = @ \o child.modes]]
    /\ UNCHANGED <<fs, input, pc, seen, result, order, harness>>

\* as_import, lines 163-168 in the child, 147-161 in its caller
ImportReturn ==
    /\ AtImports
    /\ top.imports = {}
    /\ Len(stack) > 1
    /\ LET child == top
           parent == stack[Len(stack) - 1]
       IN stack' = [SubSeq(stack, 1, Len(stack) - 1) EXCEPT ![Len(stack) - 1] =
                       [parent EXCEPT !.imports = @ \cup child.imports,
                                      !.bindings = MergeBindings(@, child.bindings),
                                      !.unbinds = @ \o child.unbinds,
                                      !.modes = @ \o child.modes]]
    /\ UNCHANGED <<fs, input, pc, seen, result, order, harness>>

\* root.imports is left as the root call returned it
FromReturnKeepsOwnImports ==
    /\ AtImports
    /\ top.imports = {}
    /\ Len(stack) = 1
    /\ pc' = "done"
    /\ stack' = <<>>
    /\ result' = Ok([bindings |-> ApplyUnbinds(top.bindings, top.unbinds),
                     unbinds |-> top.unbinds,
                     imports |-> top.imports,
                     modes |-> top.modes])
    /\ UNCHANGED <<fs, input, seen, order, harness>>

\* as_import, lines 163-168 in the root call; from, lines 92-98
FromReturn ==
    /\ AtImports
    /\ top.imports = {}
    /\ Len(stack) = 1
    /\ pc' = "done"
    /\ stack' = <<>>
    /\ result' = Ok([bindings |-> ApplyUnbinds(top.bindings, top.unbinds),
                     unbinds |-> top.unbinds,
                     imports |-> seen,
                     modes |-> top.modes])
    /\ UNCHANGED <<fs, input, seen, order, harness>>

----------------------------------------------------------------------------
(* The specification.                                                      *)

Paths == 1..NumFiles

\* no call of from has returned yet
NoCall == Err("none", NoSpan, "", <<>>, NoPath, Zero)

IncludeSets == {S \in SUBSET Paths : Cardinality(S) <= MaxIncludes}

\* a regular file of one byte
File(includes, body) ==
    [kind |-> "file", size |-> U64(0, 0, 1), includes |-> includes, body |-> body]

\* the body of the file handed to from, and the body of every other file
Scenarios == {<<1, 1>>, <<2, 2>>, <<3, 1>>, <<4, 1>>, <<1, 4>>, <<5, 5>>, <<2, 6>>, <<6, 1>>}

Init ==
    /\ input \in Paths
    /\ \E includes \in [Paths -> IncludeSets], scenario \in Scenarios :
           fs = [p \in Paths |->
                    File(includes[p], IF p = input THEN scenario[1] ELSE scenario[2])]
    /\ pc = "start"
    /\ stack = <<>>
    /\ seen = {}
    /\ result = Ok(<<>>)
    /\ order = <<>>
    /\ env = Unset
    /\ decl = NoSpan
    /\ parsed = Ok(<<>>)
    /\ earlier = NoCall

Next ==
    \/ From
    \/ DeclBinding
    \/ DeclUnbind
    \/ DeclMode
    \/ DeclImport
    \/ ImportSeen
    \/ ImportCall
    \/ ImportReturn
    \/ FromReturn

Spec == Init /\ [][Next]_vars

\* the file systems of the calls followed to their end
FairScenarios == {<<1, 1>>, <<5, 4>>}

InitFair ==
    /\ input \in Paths
    /\ \E includes \in [Paths -> IncludeSets], scenario \in FairScenarios :
           fs = [p \in Paths |->
                    File(includes[p], IF p = input THEN scenario[1] ELSE scenario[2])]
    /\ pc = "start"
    /\ stack = <<>>
    /\ seen = {}
    /\ result = Ok(<<>>)
    /\ order = <<>>
    /\ env = Unset
    /\ decl = NoSpan
    /\ parsed = Ok(<<>>)
    /\ earlier = NoCall

\* a call of from that can take a step takes it
FairSpec == InitFair /\ [][Next]_vars /\ WF_vars(Next)

----------------------------------------------------------------------------
(* from on larger file systems with few include lines.                     *)

OrderPaths == 1..NumOrderFiles

IncludeLines == {lines \in SUBSET (OrderPaths \X OrderPaths) :
                    Cardinality(lines) <= MaxOrderIncludes}

OrderScenarios == {<<1, 1>>, <<5, 4>>}

InitOrder ==
    /\ input \in OrderPaths
    /\ \E lines \in IncludeLines, scenario \in OrderScenarios :
           fs = [p \in OrderPaths |->
                    File({q \in OrderPaths : <<p, q>> \in lines},
                         IF p = input THEN scenario[1] ELSE scenario[2])]
    /\ pc = "start"
    /\ stack = <<>>
    /\ seen = {}
    /\ result = Ok(<<>>)
    /\ order = <<>>
    /\ env = Unset
    /\ decl = NoSpan
    /\ parsed = Ok(<<>>)
    /\ earlier = NoCall

SpecOrder == InitOrder /\ [][Next]_vars

----------------------------------------------------------------------------
(* from called twice: on a file system, and on the same file system with   *)
(* one more include line, of a file's own path in that file.               *)

InitTwice == InitFair

Again ==
    /\ pc = "done"
    /\ ~earlier.ok
    /\ earlier.err.kind = "none"
    /\ \E path \in DOMAIN fs :
           /\ path \notin fs[path].includes
           /\ fs' = [fs EXCEPT ![path].includes = @ \cup {path}]
    /\ earlier' = result
    /\ pc' = "start"
    /\ stack' = <<>>
    /\ seen' = {}
    /\ order' = <<>>
    /\ result' = Ok(<<>>)
    /\ UNCHANGED <<input, env, decl, parsed>>

NextTwice ==
    \/ Next
    \/ Again

SpecTwice == InitTwice /\ [][NextTwice]_vars

----------------------------------------------------------------------------
(* from on file systems where one or two files cannot be read or parsed.   *)

Faults == {"absent", "directory", "large", "grammar", "parity", "range", "key"}

\* what is at a path that fails in the given way
Faulty(fault, includes) ==
    CASE fault = "absent" -> [File(includes, 1) EXCEPT !.kind = "absent"]
      [] fault = "directory" -> [File(includes, 1) EXCEPT !.kind = "directory"]
      [] fault = "large" -> [File(includes, 1) EXCEPT !.size = U64(0, 50, 1)]
      [] fault = "grammar" -> File(includes, 0)
      [] fault = "parity" -> File(includes, 6)
      [] fault = "range" -> File(includes, 7)
      [] fault = "key" -> File(includes, 8)

InitErrors ==
    /\ input \in Paths
    /\ \E lines \in {l \in SUBSET (Paths \X Paths) : Cardinality(l) <= MaxOrderIncludes},
          faulty \in {S \in SUBSET Paths : Cardinality(S) <= MaxFaulty},
          fault \in Faults :
           fs = [p \in Paths |->
                    IF p \in faulty
                    THEN Faulty(fault, {q \in Paths : <<p, q>> \in lines})
                    ELSE File({q \in Paths : <<p, q>> \in lines}, 1)]
    /\ pc = "start"
    /\ stack = <<>>
    /\ seen = {}
    /\ result = Ok(<<>>)
    /\ order = <<>>
    /\ env = Unset
    /\ decl = NoSpan
    /\ parsed = Ok(<<>>)
    /\ earlier = NoCall

SpecErrors == InitErrors /\ [][Next]_vars

----------------------------------------------------------------------------
(* binding_parser alone, on one declaration.                               *)

ctrl == <<"c", "t", "r", "l">>
alt == <<"a", "l", "t">>

SeqsUpTo(S, min, max) == UNION {[1..n -> S] : n \in min..max}

\* super    {ctrl, alt}    {_, shift +}    {super, shift, alt}
GroupShapes ==
    {Modifier(super),
     ModifierShorthand(<<Modifier(ctrl), Modifier(alt)>>),
     ModifierOmitShorthand(<<Omission, Modifier(shift)>>),
     ModifierShorthand(<<Modifier(super), Modifier(shift), Modifier(alt)>>)}

\* a    {a, b}    {a, b, c}    {1-3}
KeyShapes ==
    {KeyNormal(<<>>, <<"a">>),
     Shorthand(<<KeyInShorthand(<<>>, <<"a">>), KeyInShorthand(<<>>, <<"b">>)>>),
     Shorthand(<<KeyInShorthand(<<>>, <<"a">>), KeyInShorthand(<<>>, <<"b">>),
                 KeyInShorthand(<<>>, <<"c">>)>>),
     Shorthand(<<Pair("key_range", <<>>, <<KeyInShorthand(<<>>, <<"1">>),
                                           KeyInShorthand(<<>>, <<"3">>)>>)>>)}

\* x    {f, g}    {p, q, r}    {1-3}    &&    @enter m    @escape
PieceShapes ==
    {CommandStandalone(<<"x">>),
     CommandShorthand(<<CommandComponent(<<"f">>), CommandComponent(<<"g">>)>>),
     CommandShorthand(<<CommandComponent(<<"p">>), CommandComponent(<<"q">>),
                        CommandComponent(<<"r">>)>>),
     CommandShorthand(<<Pair("range", <<>>, <<Pair("range_bound", <<"1">>, <<>>),
                                               Pair("range_bound", <<"3">>, <<>>)>>)>>),
     CommandDoubleAmpersand,
     EnterMode(<<"m">>),
     EscapeMode}

\* a command begins with a piece of text: a standalone piece or a shorthand
TextPieces == {piece \in PieceShapes :
                 piece.rule \in {"command_standalone", "command_shorthand"}}

InitDecl ==
    /\ \E groups \in SeqsUpTo(GroupShapes, 0, MaxGroups), key \in KeyShapes,
          first \in TextPieces, pieces \in SeqsUpTo(PieceShapes, 0, MaxPieces - 1) :
           decl = Binding(groups \o <<key>>, <<first>> \o pieces)
    /\ parsed = Ok(<<>>)
    /\ earlier = NoCall
    /\ env = Unset
    /\ pc = "decl"
    /\ fs = <<>>
    /\ input = 0
    /\ stack = <<>>
    /\ seen = {}
    /\ result = Ok(<<>>)
    /\ order = <<>>

\* binding_parser(decl)
BindingParser ==
    /\ pc = "decl"
    /\ parsed' = binding_parser(decl)
    /\ pc' = "parsed"
    /\ UNCHANGED <<fs, input, stack, seen, result, order, env, decl, earlier>>

NextDecl == BindingParser

SpecDecl == InitDecl /\ [][NextDecl]_vars

----------------------------------------------------------------------------
(* binding_parser alone, on key tokens with prefixes and on ranges.        *)

KeyRange(lower, upper) == Pair("key_range", <<>>, <<lower, upper>>)
CommandRange(lower, upper) ==
    Pair("range", <<>>, <<Pair("range_bound", <<lower>>, <<>>),
                          Pair("range_bound", <<upper>>, <<>>)>>)

\* no prefix, ~, @, ~@, @~
KeyPrefixes == {<<>>, <<Send>>, <<OnRelease>>, <<Send, OnRelease>>, <<OnRelease, Send>>}

\* the bounds of the key ranges and of the command ranges
KeyBoundChars == {"a", "c", "C", "e'"}
CommandBoundChars == {"1", "3", "e'"}

\* a plain key, two keys in a shorthand, a key range in a shorthand
KeyTokens ==
    {KeyNormal(p, <<n>>) : p \in KeyPrefixes, n \in {"a", "A"}}
    \cup {Shorthand(<<KeyInShorthand(p, <<"a">>), KeyInShorthand(q, <<"B">>)>>) :
             p \in KeyPrefixes, q \in KeyPrefixes}
    \cup {Shorthand(<<KeyRange(KeyInShorthand(p, <<lo>>), KeyInShorthand(q, <<hi>>))>>) :
             p \in KeyPrefixes, q \in KeyPrefixes, lo \in KeyBoundChars, hi \in KeyBoundChars}

\* x    {f, g}    a command range
CommandTokens ==
    {CommandStandalone(<<"x">>),
     CommandShorthand(<<CommandComponent(<<"f">>), CommandComponent(<<"g">>)>>)}
    \cup {CommandShorthand(<<CommandRange(lo, hi)>>) :
             lo \in CommandBoundChars, hi \in CommandBoundChars}

InitKeys ==
    /\ \E key \in KeyTokens, command \in CommandTokens :
           decl = Binding(<<key>>, <<command>>)
    /\ parsed = Ok(<<>>)
    /\ earlier = NoCall
    /\ env = Unset
    /\ pc = "decl"
    /\ fs = <<>>
    /\ input = 0
    /\ stack = <<>>
    /\ seen = {}
    /\ result = Ok(<<>>)
    /\ order = <<>>

SpecKeys == InitKeys /\ [][NextDecl]_vars

----------------------------------------------------------------------------
(* What the claims speak of.                                               *)

\* from has returned a configuration
Returned == pc = "done" /\ result.ok

\* the bindings the root-level binding declarations among the first n pairs
\* of a file declare, in the order they are declared
DeclaredBindings(contents, n) ==
    Flatten([i \in 1..n |->
                IF contents[i].rule = "binding" /\ binding_parser(contents[i]).ok
                THEN binding_parser(contents[i]).v
                ELSE <<>>])

\* the definitions the root-level ignore lines of a file name
DeclaredUnbinds(contents) ==
    Flatten([i \in DOMAIN contents |->
                IF contents[i].rule = "unbind" /\ unbind_parser(contents[i]).ok
                THEN unbind_parser(contents[i]).v
                ELSE <<>>])

\* the paths the include lines among the first n pairs of a file name
DeclaredImports(contents, n) ==
    UNION {import_parser(contents[i]) : i \in {j \in 1..n : contents[j].rule = "import"}}

\* a sequence without its repetitions: each element stays where it first stands
RECURSIVE Distinct(_)
Distinct(s) ==
    IF s = <<>> THEN <<>>
    ELSE LET d == Distinct(SubSeq(s, 1, Len(s) - 1))
         IN IF s[Len(s)] \in Range(d) THEN d ELSE Append(d, s[Len(s)])

Definitions(bindings) == [i \in DOMAIN bindings |-> bindings[i].definition]

\* the last binding of a sequence with a definition
LastBound(bindings, definition) ==
    bindings[CHOOSE i \in DOMAIN bindings :
                /\ bindings[i].definition = definition
                /\ \A j \in DOMAIN bindings : bindings[j].definition = definition => j <= i]

\* the call at the top of the stack has popped none of its imports
NothingPopped(frame) == frame.imports = DeclaredImports(frame.contents, frame.next - 1)

\* the modifier groups of a declaration as written, left to right, each the
\* sequence of its alternatives
ModifierGroups(declaration) ==
    LET groups == SelectSeq(declaration.inner,
                            LAMBDA c : c.rule \in {"modifier", "modifier_shorthand",
                                                   "modifier_omit_shorthand"})
    IN [g \in DOMAIN groups |->
           IF groups[g].rule = "modifier" THEN <<ModifierFrom(groups[g].str)>>
           ELSE [a \in DOMAIN groups[g].inner |-> ModifierFrom(groups[g].inner[a].str)]]

\* the keys of a key range, lower bound first
RangeKeys(range) ==
    LET lower == CharCode[parse_key(range.inner[1]).key[1]]
        upper == CharCode[parse_key(range.inner[2]).key[1]]
    IN [n \in 1..(upper - lower + 1) |->
           KeyTryFrom([key |-> <<CharOf(lower + n - 1)>>, attribute |-> KeyAttributeNone]).v]

\* the key alternatives of a declaration as written, left to right
KeyAlternatives(declaration) ==
    LET keys == SelectSeq(declaration.inner,
                          LAMBDA c : c.rule \in {"key_normal", "shorthand"})
    IN Flatten([k \in DOMAIN keys |->
           IF keys[k].rule = "key_normal" THEN <<KeyTryFrom(parse_key(keys[k])).v>>
           ELSE Flatten([a \in DOMAIN keys[k].inner |->
                    IF keys[k].inner[a].rule = "key_range" THEN RangeKeys(keys[k].inner[a])
                    ELSE <<KeyTryFrom(parse_key(keys[k].inner[a])).v>>])])

\* the alternatives of one piece of command text
SegmentAlternatives(piece) ==
    IF piece.rule # "command_shorthand" THEN <<piece.str>>
    ELSE Flatten([a \in DOMAIN piece.inner |->
             IF piece.inner[a].rule = "range"
             THEN [n \in 1..(CharCode[piece.inner[a].inner[2].str[1]]
                              - CharCode[piece.inner[a].inner[1].str[1]] + 1) |->
                      <<CharOf(CharCode[piece.inner[a].inner[1].str[1]] + n - 1)>>]
             ELSE <<piece.inner[a].str>>])

\* the command segments of a declaration as written, left to right; a `&&`
\* that follows a `&&` is no segment
CommandSegments(declaration) ==
    LET command == declaration.inner[Len(declaration.inner)]
        text == SelectSeq(command.inner,
                          LAMBDA c : c.rule \in {"command_standalone", "command_shorthand",
                                                 "command_double_ampersand"})
        kept == {i \in DOMAIN text :
                    ~(/\ text[i].rule = "command_double_ampersand"
                      /\ i > 1
                      /\ text[i - 1].rule = "command_double_ampersand")}
    IN [k \in 1..Cardinality(kept) |-> SegmentAlternatives(text[SortedSeq(kept)[k]])]

Sizes(lists) == [k \in DOMAIN lists |-> Len(lists[k])]

RECURSIVE Product(_)
Product(sizes) == IF sizes = <<>> THEN 1 ELSE Head(sizes) * Product(Tail(sizes))

\* which alternative of list k the i-th element of the cross product of lists
\* of these sizes takes, the first list varying slowest
Chosen(i, sizes, k) ==
    (((i - 1) \div Product(SubSeq(sizes, k + 1, Len(sizes)))) % sizes[k]) + 1

\* the bindings the files of a sequence declare at root level, file after
\* file, each file's in the order it declares them
DocumentOrder(files) ==
    Flatten([n \in DOMAIN files |->
                DeclaredBindings(Contents(fs[files[n]], files[n]),
                                 Len(Contents(fs[files[n]], files[n])))])

\* the file handed to from, then the files it includes, least path first,
\* each one followed by all that it brings in before the next is taken; a
\* path taken once is not taken again
RECURSIVE DepthFirst(_, _)
RECURSIVE DepthFirstIncludes(_, _)
DepthFirst(path, acc) ==
    DepthFirstIncludes(SortedSeq(fs[path].includes), [acc EXCEPT !.files = Append(@, path)])
DepthFirstIncludes(paths, acc) ==
    IF paths = <<>> THEN acc
    ELSE IF Head(paths) \in acc.taken THEN DepthFirstIncludes(Tail(paths), acc)
    ELSE DepthFirstIncludes(Tail(paths),
            DepthFirst(Head(paths), [acc EXCEPT !.taken = @ \cup {Head(paths)}]))
DepthFirstOrder == DepthFirst(input, [files |-> <<>>, taken |-> {}]).files

\* the file handed to from, then the files popped, least path first, from one
\* queue that receives the includes of every file parsed
RECURSIVE SingleQueue(_)
SingleQueue(acc) ==
    IF acc.queue = {} THEN acc.files
    ELSE LET path == CHOOSE p \in acc.queue : \A q \in acc.queue : p <= q
         IN IF path \in acc.taken THEN SingleQueue([acc EXCEPT !.queue = @ \ {path}])
            ELSE SingleQueue([files |-> Append(acc.files, path),
                              taken |-> acc.taken \cup {path},
                              queue |-> (acc.queue \ {path}) \cup fs[path].includes])
SingleQueueOrder ==
    SingleQueue([files |-> <<input>>, taken |-> {}, queue |-> fs[input].includes])

\* the paths a set of paths reaches by include lines, itself included
RECURSIVE Closure(_)
Closure(paths) ==
    IF UNION {fs[p].includes : p \in paths} \subseteq paths THEN paths
    ELSE Closure(paths \cup UNION {fs[p].includes : p \in paths})

\* the root-level bindings and ignored definitions a file declares
FileBindings(path) ==
    DeclaredBindings(Contents(fs[path], path), Len(Contents(fs[path], path)))
FileUnbinds(path) == DeclaredUnbinds(Contents(fs[path], path))

----------------------------------------------------------------------------
(* The claims.                                                             *)

\* C1: no binding of a returned configuration has Omission among its
\* modifiers, whether it was declared in the root file, merged from an
\* imported file, or declared in a mode block.
C1_NoOmissionInReturnedBindings ==
    Returned =>
        /\ \A i \in DOMAIN result.v.bindings :
               "Omission" \notin result.v.bindings[i].definition.modifiers
        /\ \A m \in DOMAIN result.v.modes :
               \A i \in DOMAIN result.v.modes[m].bindings :
                  "Omission" \notin result.v.modes[m].bindings[i].definition.modifiers

\* the omitted variant of `super + {_, shift +}` is returned as declared by
\* an imported file, over the root file's, and as declared in a mode block
C1_Witness ==
    /\ Returned
    /\ fs[input].body = 5
    /\ \E i \in DOMAIN result.v.bindings, p \in Paths \ {input} :
           /\ result.v.bindings[i].definition.modifiers = {"Super"}
           /\ result.v.bindings[i].command = <<"f", Tag(p)>>
    /\ \E m \in DOMAIN result.v.modes :
           \E i \in DOMAIN result.v.modes[m].bindings :
              /\ result.v.modes[m].bindings[i].definition.modifiers = {"Super"}
              /\ result.v.modes[m].bindings[i].command = <<"p">>

\* C2: no two bindings of the root binding list of a returned configuration
\* have equal definitions.
C2_RootDefinitionsUnique ==
    Returned =>
        \A i, j \in DOMAIN result.v.bindings :
            result.v.bindings[i].definition = result.v.bindings[j].definition => i = j

\* a file that binds one definition four times was parsed with an imported
\* file that binds it again
C2_Witness ==
    /\ Returned
    /\ fs[input].body = 3
    /\ Len(order) > 1
    /\ Len(result.v.bindings) = 3

\* C3: the definitions named by the ignore lines at the root level of the
\* input file are bound by no binding of the returned root binding list,
\* wherever the ignore line stands and whichever file declared the binding.
C3_IgnoredNeverBound ==
    Returned =>
        \A d \in Range(DeclaredUnbinds(Contents(fs[input], input))) :
            \A i \in DOMAIN result.v.bindings : result.v.bindings[i].definition # d

\* the input file ignores `a` before binding it and `b` after binding it, and
\* an imported file that binds `a` was parsed
C3_Witness ==
    /\ Returned
    /\ fs[input].body = 4
    /\ \E n \in 2..Len(order) : fs[order[n]].body = 1
    /\ Len(result.v.unbinds) >= 2

\* C4: while a call has merged nothing but the declarations of its own file,
\* its binding list holds each declared definition once, at the place of the
\* definition's first declaration, with the command and the mode
\* instructions of its last declaration.
C4_OverrideWithinOneFile ==
    (pc = "run" /\ NothingPopped(top)) =>
        LET all == DeclaredBindings(top.contents, top.next - 1)
            definitions == Distinct(Definitions(all))
        IN /\ Definitions(top.bindings) = definitions
           /\ \A i \in DOMAIN top.bindings :
                 /\ top.bindings[i].command = LastBound(all, definitions[i]).command
                 /\ top.bindings[i].mode_instructions =
                        LastBound(all, definitions[i]).mode_instructions

\* the five bindings of `a / x @escape`, `super + {_, super +} a / {u, v}`,
\* `b / y`, `A / z` are declared and three are kept
C4_Witness ==
    /\ pc = "run"
    /\ NothingPopped(top)
    /\ top.next > Len(top.contents)
    /\ Len(DeclaredBindings(top.contents, top.next - 1)) = 5
    /\ Len(top.bindings) = 3

\* C6: binding_parser fails with a Grammar error whose span is the whole
\* declaration when the number of definitions of the key-side cross product,
\* counted as written, differs from the number of commands of the
\* command-side cross product, and returns exactly that many bindings when
\* the two numbers are equal.
C6_VariantCountsMustAgree ==
    pc = "parsed" =>
        LET definitions == Product(Sizes(ModifierGroups(decl))) * Len(KeyAlternatives(decl))
            commands == Product(Sizes(CommandSegments(decl)))
        IN IF definitions # commands
           THEN /\ ~parsed.ok
                /\ parsed.err.kind = "Grammar"
                /\ parsed.err.span = decl
           ELSE /\ parsed.ok
                /\ Len(parsed.v) = definitions

\* `{_, shift +} {a, b, c}` with the two commands of `{f, g}` was refused
C6_Witness ==
    /\ pc = "parsed"
    /\ ~parsed.ok
    /\ Sizes(ModifierGroups(decl)) = <<2>>
    /\ "Omission" \in Range(ModifierGroups(decl)[1])
    /\ Len(KeyAlternatives(decl)) = 3
    /\ Sizes(CommandSegments(decl)) = <<2>>

\* C7: the i-th binding has the key and the modifiers (less Omission) of the
\* i-th element of M1 x ... x Mn x K, leftmost group slowest and key
\* fastest, and the command of the i-th element of S1 x ... x Sm, leftmost
\* segment slowest; without modifier groups the modifier set is empty.
C7_BindingsPairCrossProducts ==
    (pc = "parsed" /\ parsed.ok) =>
        LET groups == ModifierGroups(decl)
            keys == KeyAlternatives(decl)
            segments == CommandSegments(decl)
            dsizes == Sizes(groups) \o <<Len(keys)>>
            csizes == Sizes(segments)
        IN \A i \in DOMAIN parsed.v :
              /\ parsed.v[i].definition.key = keys[Chosen(i, dsizes, Len(dsizes))]
              /\ parsed.v[i].definition.modifiers =
                     {groups[k][Chosen(i, dsizes, k)] : k \in DOMAIN groups} \ {"Omission"}
              /\ parsed.v[i].command =
                     Flatten([k \in DOMAIN segments |-> segments[k][Chosen(i, csizes, k)]])

\* two groups of several modifiers and several keys were paired with the
\* commands of two segments of several alternatives
C7_Witness ==
    /\ pc = "parsed"
    /\ parsed.ok
    /\ Len(ModifierGroups(decl)) = 2
    /\ \A g \in DOMAIN ModifierGroups(decl) : Len(ModifierGroups(decl)[g]) >= 2
    /\ Len(KeyAlternatives(decl)) >= 2
    /\ \E k, l \in DOMAIN CommandSegments(decl) :
           k # l /\ Len(CommandSegments(decl)[k]) >= 2 /\ Len(CommandSegments(decl)[l]) >= 2

\* C5 as stated: a definition bound in several files keeps the command of
\* the file that comes last when the root file is followed by the imported
\* files in the order a single queue of all pending imports yields them;
\* stated for the calls that parse no file twice.
C5_LastInSingleQueueOrderWins ==
    (Returned /\ input \notin seen) =>
        \A i \in DOMAIN result.v.bindings :
            result.v.bindings[i].command =
                LastBound(DocumentOrder(SingleQueueOrder),
                          result.v.bindings[i].definition).command

\* C5 amended: the files are parsed root first, then depth first, each file's
\* pending imports least path first and each import with all that it brings
\* in before the next; a definition bound in several files keeps the command
\* of the file parsed last.
C5_LastInDepthFirstOrderWins ==
    Returned =>
        /\ order = DepthFirstOrder
        /\ \A i \in DOMAIN result.v.bindings :
               result.v.bindings[i].command =
                   LastBound(DocumentOrder(order), result.v.bindings[i].definition).command

\* four files that bind `a` were parsed, each once, in an order that is not
\* the single queue's
C5_Witness ==
    /\ Returned
    /\ input \notin seen
    /\ Len(order) = 4
    /\ \A p \in DOMAIN fs : fs[p].body = 1
    /\ order # SingleQueueOrder

\* C8: whatever the files include (themselves, each other, longer cycles,
\* one file by two ways), from returns, and no path is read and parsed as an
\* import twice during the call.
C8_TerminatesReadingEachImportOnce ==
    /\ <>(pc = "done")
    /\ [](\A i, j \in 2..Len(order) : order[i] = order[j] => i = j)

\* from has returned although every file includes itself and the root file
\* is included by a file it includes
C8_Witness ==
    /\ Returned
    /\ \A p \in DOMAIN fs : p \in fs[p].includes
    /\ \E p \in DOMAIN fs \ {input} : p \in fs[input].includes /\ input \in fs[p].includes
    /\ Len(order) >= 3

\* C9: when the files reached from the entry file include one another in a
\* cycle, bind definitions that are bound once in all of them and ignore
\* nothing, the returned root bindings are the bindings these files declare,
\* each once; and they are the bindings declared by the files reached from
\* any file that is on a cycle with the entry file.
C9_CycleYieldsEveryDeclaredBinding ==
    (/\ Returned
     /\ \E p \in Closure({input}) : p \in Closure(fs[p].includes)
     /\ \A p \in Closure({input}) : FileUnbinds(p) = <<>>
     /\ \A p, q \in Closure({input}) :
            \A i \in DOMAIN FileBindings(p), j \in DOMAIN FileBindings(q) :
               FileBindings(p)[i].definition = FileBindings(q)[j].definition
                   => (p = q /\ i = j))
    => /\ Range(result.v.bindings) =
              UNION {Range(FileBindings(p)) : p \in Closure({input})}
       /\ \A i, j \in DOMAIN result.v.bindings :
              result.v.bindings[i] = result.v.bindings[j] => i = j
       /\ \A entry \in Closure({input}) :
              input \in Closure({entry}) =>
                  Range(result.v.bindings) =
                      UNION {Range(FileBindings(p)) : p \in Closure({entry})}

\* three files, each binding its own key, include one another in a cycle
\* through the entry file
C9_Witness ==
    /\ Returned
    /\ \A p \in DOMAIN fs : fs[p].body = 2
    /\ Closure({input}) = DOMAIN fs
    /\ \A p \in DOMAIN fs : Cardinality(fs[p].includes) = 1 /\ p \notin fs[p].includes
    /\ input \in seen
    /\ Len(result.v.bindings) = 3

\* C10, for the bindings: from returns the same root bindings, with the same
\* commands in the same order, after an include of a file's own path is
\* added to a file.
C10_SelfIncludeKeepsBindings ==
    (pc = "done" /\ result.ok /\ earlier.ok) =>
        result.v.bindings = earlier.v.bindings

\* the fault of a file: the way reading or parsing it fails, "none" if it does not
FaultOf(path) ==
    CASE fs[path].kind = "absent" -> "absent"
      [] fs[path].kind = "directory" -> "directory"
      [] fs[path].kind = "file" /\ fs[path].size # U64(0, 0, 1) -> "large"
      [] fs[path].kind = "file" /\ fs[path].size = U64(0, 0, 1) ->
            CASE fs[path].body = 0 -> "grammar"
              [] fs[path].body = 6 -> "parity"
              [] fs[path].body = 7 -> "range"
              [] fs[path].body = 8 -> "key"
              [] OTHER -> "none"

\* the error is the one the fault of the file at `path` raises
ErrorOf(error, path) ==
    CASE FaultOf(path) = "absent" -> error.kind = "ReadingConfig"
      [] FaultOf(path) = "directory" -> error.kind = "NotRegularFile" /\ error.path = path
      [] FaultOf(path) = "large" ->
            error.kind = "TooLarge" /\ error.path = path /\ error.cap = U64(0, 0, 50)
      [] FaultOf(path) = "grammar" -> error.kind = "Grammar" /\ error.path = path
      [] FaultOf(path) = "parity" ->
            /\ error.kind = "Grammar"
            /\ error.message = "binding variants do not equal command variants"
      [] FaultOf(path) = "range" ->
            /\ error.kind = "Grammar"
            /\ error.message = "lower bound is greater than upper bound"
      [] FaultOf(path) = "key" -> error.kind = "InvalidKey" /\ error.key = <<"a", "a">>

\* C11: when reading or parsing the root file or an imported file fails
\* (the file is absent, is not a regular file, is too large, is refused by
\* the grammar, or holds a parity error, a range error or an invalid key),
\* from returns that file's error and no configuration, and the failing file
\* is the last one read: the files read are the files of the traversal up to
\* the first that fails.
C11_FirstFailureIsReturned ==
    pc = "done" =>
        LET failing == {i \in DOMAIN DepthFirstOrder : FaultOf(DepthFirstOrder[i]) # "none"}
        IN IF failing = {} THEN result.ok
           ELSE LET i == CHOOSE i \in failing : \A j \in failing : i <= j
                IN /\ ~result.ok
                   /\ ErrorOf(result.err, DepthFirstOrder[i])
                   /\ order = SubSeq(DepthFirstOrder, 1, i)

\* an imported file fails after the root and another import gave bindings,
\* and a file the traversal would reach next is never read
C11_Witness ==
    /\ pc = "done"
    /\ ~result.ok
    /\ Len(order) = 3
    /\ Len(DepthFirstOrder) > 3 \/ \E p \in DOMAIN fs : FaultOf(p) # "none" /\ p \notin Range(order)
    /\ FaultOf(order[1]) = "none"
    /\ FaultOf(order[2]) = "none"
    /\ FaultOf(order[3]) \in {"parity", "range", "key"}

\* the key token of a declaration of one key token, and its command piece
KeyToken(declaration) == declaration.inner[1]
CommandToken(declaration) == declaration.inner[Len(declaration.inner)].inner[1]

\* the flags the prefix characters of a key token name
PrefixFlags(token) ==
    {"Send" : i \in {i \in DOMAIN token.inner : token.inner[i].rule = "send"}}
    \cup {"OnRelease" : i \in {i \in DOMAIN token.inner : token.inner[i].rule = "on_release"}}

IsKeyRange(token) == token.rule = "shorthand" /\ token.inner[1].rule = "key_range"

\* C12: the KeyAttribute of every binding's key is the union of the flags
\* its key token's prefix characters name (~ Send, @ OnRelease, in either
\* order, none for no prefix): for a plain key, for each key of a key
\* shorthand, and for every key of a key range whose bounds carry the same
\* prefixes.
C12_AttributeIsUnionOfPrefixes ==
    (pc = "parsed" /\ parsed.ok) =>
        \A i \in DOMAIN parsed.v :
            parsed.v[i].definition.key.attribute =
                IF KeyToken(decl).rule = "key_normal" THEN PrefixFlags(KeyToken(decl))
                ELSE IF IsKeyRange(KeyToken(decl))
                     THEN PrefixFlags(KeyToken(decl).inner[1].inner[1])
                ELSE PrefixFlags(KeyToken(decl).inner[i])

----------------------------------------------------------------------------
(* binding_parser on a declaration and on the same declaration with the    *)
(* case of modifier names and key names changed.                           *)

\* str::to_uppercase, character by character
to_uppercase(s) ==
    [i \in DOMAIN s |->
        IF \E c \in DOMAIN LowerCaseOf : LowerCaseOf[c] = s[i]
        THEN CHOOSE c \in DOMAIN LowerCaseOf : LowerCaseOf[c] = s[i]
        ELSE s[i]]

\* the k-th name of a group or range, recased: every letter, the first
\* letter, or every letter of the names at odd or at even places
RecaseText(text, style, k) ==
    CASE style = "upper" -> to_uppercase(text)
      [] style = "first" -> to_uppercase(SubSeq(text, 1, 1)) \o SubSeq(text, 2, Len(text))
      [] style = "odd" -> IF k % 2 = 1 THEN to_uppercase(text) ELSE text
      [] style = "even" -> IF k % 2 = 0 THEN to_uppercase(text) ELSE text

\* the modifier names and key names of a component, recased
RECURSIVE RecasePair(_, _, _)
RecasePair(pair, style, k) ==
    IF pair.rule \in {"modifier", "key_base", "shorthand_allow"}
    THEN [pair EXCEPT !.str = RecaseText(@, style, k)]
    ELSE [pair EXCEPT !.inner =
            [i \in DOMAIN pair.inner |->
                RecasePair(pair.inner[i], style,
                           IF /\ Len(pair.inner) > 1
                              /\ pair.rule \in {"modifier_shorthand", "modifier_omit_shorthand",
                                                "shorthand", "key_range"}
                           THEN i ELSE k)]]

\* super    {ctrl, alt}    {_, shift +}
CaseGroups ==
    {Modifier(super),
     ModifierShorthand(<<Modifier(ctrl), Modifier(alt)>>),
     ModifierOmitShorthand(<<Omission, Modifier(shift)>>)}

\* a    ~enter    {a, b}    {a-c}    {c-a}
CaseKeys ==
    {KeyNormal(<<>>, <<"a">>),
     KeyNormal(<<Send>>, <<"e", "n", "t", "e", "r">>),
     Shorthand(<<KeyInShorthand(<<>>, <<"a">>), KeyInShorthand(<<>>, <<"b">>)>>),
     Shorthand(<<KeyRange(KeyInShorthand(<<>>, <<"a">>), KeyInShorthand(<<>>, <<"c">>))>>),
     Shorthand(<<KeyRange(KeyInShorthand(<<>>, <<"c">>), KeyInShorthand(<<>>, <<"a">>))>>)}

\* command texts the parser never looks into
Words == <<"w1", "w2", "w3", "w4", "w5", "w6", "w7", "w8", "w9", "w10", "w11", "w12">>

\* one command per definition of the key side:  {w1, .., wn}
CommandFor(definition) ==
    LET n == Product(Sizes(ModifierGroups(Pair("binding", <<>>, definition))))
                 * Len(KeyAlternatives(Pair("binding", <<>>, definition)))
    IN CommandShorthand([i \in 1..(IF n = 0 THEN 1 ELSE n) |-> CommandComponent(<<Words[i]>>)])

InitCase ==
    /\ \E groups \in SeqsUpTo(CaseGroups, 0, MaxGroups), key \in CaseKeys :
           decl = Binding(groups \o <<key>>, <<CommandFor(groups \o <<key>>)>>)
    /\ parsed = Ok(<<>>)
    /\ earlier = NoCall
    /\ env = Unset
    /\ pc = "decl"
    /\ fs = <<>>
    /\ input = 0
    /\ stack = <<>>
    /\ seen = {}
    /\ result = Ok(<<>>)
    /\ order = <<>>

\* the source is edited: names of some components of the definition change case
Recase ==
    /\ pc = "parsed"
    /\ earlier = NoCall
    /\ \E style \in {"upper", "first", "odd", "even"},
          at \in SUBSET (1..(Len(decl.inner) - 1)) :
           /\ at # {}
           /\ decl' = [decl EXCEPT !.inner =
                          [i \in DOMAIN decl.inner |->
                              IF i \in at THEN RecasePair(decl.inner[i], style, 1)
                              ELSE decl.inner[i]]]
    /\ earlier' = parsed
    /\ pc' = "decl"
    /\ UNCHANGED <<fs, input, stack, seen, result, order, env, parsed>>

NextCase ==
    \/ BindingParser
    \/ Recase

SpecCase == InitCase /\ [][NextCase]_vars

\* C13: changing the ASCII case of modifier names and key names (standalone,
\* in a modifier shorthand, in a key shorthand, as a key-range bound) changes
\* nothing in what the declaration yields: the same bindings, or a refusal
\* of the same kind with the same message.
C13_CaseOfNamesIsIgnored ==
    (pc = "parsed" /\ earlier # NoCall) =>
        IF earlier.ok THEN parsed = earlier
        ELSE /\ ~parsed.ok
             /\ parsed.err.kind = earlier.err.kind
             /\ parsed.err.message = earlier.err.message

\* `SUPER + {_, SHIFT +} {A-C}` was parsed after `super + {_, shift +} {a-c}`
C13_Witness ==
    /\ pc = "parsed"
    /\ earlier # NoCall
    /\ parsed.ok
    /\ Len(parsed.v) = 6
    /\ decl.inner[1].str = <<"S", "U", "P", "E", "R">>
    /\ decl.inner[2].inner[2].str = <<"S", "H", "I", "F", "T">>
    /\ IsKeyRange(decl.inner[3])
    /\ decl.inner[3].inner[1].inner[1].inner[1].str = <<"A">>
    /\ decl.inner[3].inner[1].inner[2].inner[1].str = <<"C">>

----------------------------------------------------------------------------
(* Ranges as written.                                                      *)

\* a character after case folding
Folded(c) == IF c \in DOMAIN LowerCaseOf THEN LowerCaseOf[c] ELSE c

IsCommandRange(token) ==
    token.rule = "command_shorthand" /\ token.inner[1].rule = "range"

\* the code points of the bounds of the key range of a key token; the key
\* names are case-folded when they are read
KeyLower(token) ==
    LET bound == token.inner[1].inner[1] IN CharCode[Folded(bound.inner[Len(bound.inner)].str[1])]
KeyUpper(token) ==
    LET bound == token.inner[1].inner[2] IN CharCode[Folded(bound.inner[Len(bound.inner)].str[1])]

\* the code points of the bounds of the range of a command token
CommandLower(token) == CharCode[token.inner[1].inner[1].str[1]]
CommandUpper(token) == CharCode[token.inner[1].inner[2].str[1]]

\* both bounds are ASCII and the lower is not above the upper
BoundsInOrder(lo, hi) == lo < 128 /\ hi < 128 /\ lo <= hi

\* the bounds of a key range carry the same prefixes
SamePrefixes(token) ==
    PrefixFlags(token.inner[1].inner[1]) = PrefixFlags(token.inner[1].inner[2])

KeyRangeValid(token) ==
    IsKeyRange(token) /\ SamePrefixes(token) /\ BoundsInOrder(KeyLower(token), KeyUpper(token))
CommandRangeValid(token) ==
    IsCommandRange(token) /\ BoundsInOrder(CommandLower(token), CommandUpper(token))

\* expand(lo, hi): the code points from lo to hi
Expand(lo, hi) == [n \in 1..(hi - lo + 1) |-> lo + n - 1]

\* the number of alternatives of a key token and of a command token
KeyCount(token) ==
    IF token.rule = "key_normal" THEN 1
    ELSE IF IsKeyRange(token) THEN Len(Expand(KeyLower(token), KeyUpper(token)))
    ELSE Len(token.inner)
CommandCount(token) ==
    IF token.rule = "command_standalone" THEN 1
    ELSE IF IsCommandRange(token) THEN Len(Expand(CommandLower(token), CommandUpper(token)))
    ELSE Len(token.inner)

\* C14: a range with ASCII bounds lo <= hi (lo = hi included) expands to
\* every character from lo to hi, hi - lo + 1 of them in increasing order: on
\* the key side binding n has the key of the n-th character, on the command
\* side binding n has the n-th character as its command.  The declaration
\* is refused only when the two sides differ in number.
C14_RangeExpandsInclusive ==
    pc = "parsed" =>
        LET key == KeyToken(decl)
            command == CommandToken(decl)
        IN /\ (KeyRangeValid(key) /\ (IsCommandRange(command) => CommandRangeValid(command))) =>
                 IF KeyCount(key) = CommandCount(command)
                 THEN /\ parsed.ok
                      /\ Len(parsed.v) = KeyUpper(key) - KeyLower(key) + 1
                      /\ \A n \in DOMAIN parsed.v :
                             parsed.v[n].definition.key.key =
                                 KEY_MAP[<<CharOf(Expand(KeyLower(key), KeyUpper(key))[n])>>]
                 ELSE ~parsed.ok
           /\ (CommandRangeValid(command) /\ (IsKeyRange(key) => KeyRangeValid(key))) =>
                 IF KeyCount(key) = CommandCount(command)
                 THEN /\ parsed.ok
                      /\ Len(parsed.v) = CommandUpper(command) - CommandLower(command) + 1
                      /\ \A n \in DOMAIN parsed.v :
                             parsed.v[n].command =
                                 <<CharOf(Expand(CommandLower(command), CommandUpper(command))[n])>>
                      /\ \A n \in 1..(Len(parsed.v) - 1) :
                             CharCode[parsed.v[n].command[1]]
                                 < CharCode[parsed.v[n + 1].command[1]]
                 ELSE ~parsed.ok

\* `{a-C}` with the commands of `{1-3}` gave three bindings
C14_Witness ==
    /\ pc = "parsed"
    /\ parsed.ok
    /\ Len(parsed.v) = 3
    /\ KeyRangeValid(KeyToken(decl))
    /\ KeyToken(decl).inner[1].inner[2].inner[1].str = <<"C">>
    /\ CommandRangeValid(CommandToken(decl))

\* C15: a range is refused with a Grammar error, and the declaration yields
\* no binding, when a bound is not 7-bit ASCII or the lower bound is greater
\* than the upper; a key range is refused as well when its bounds carry
\* different prefixes.  The error spans the range; the key side is read
\* before the command side.
C15_BadRangeIsGrammarError ==
    pc = "parsed" =>
        LET key == KeyToken(decl)
            command == CommandToken(decl)
        IN /\ (IsKeyRange(key) /\ ~KeyRangeValid(key)) =>
                 /\ ~parsed.ok
                 /\ parsed.err.kind = "Grammar"
                 /\ parsed.err.span = key.inner[1]
                 /\ ~SamePrefixes(key) =>
                        parsed.err.message = "range bounds must have the same timing attributes"
           /\ (/\ IsCommandRange(command) /\ ~CommandRangeValid(command)
               /\ IsKeyRange(key) => KeyRangeValid(key)) =>
                 /\ ~parsed.ok
                 /\ parsed.err.kind = "Grammar"
                 /\ parsed.err.span = command.inner[1]

\* `{c-a}`, its bounds with the same prefixes, was refused
C15_Witness ==
    /\ pc = "parsed"
    /\ ~parsed.ok
    /\ IsKeyRange(KeyToken(decl))
    /\ SamePrefixes(KeyToken(decl))
    /\ KeyLower(KeyToken(decl)) = CharCode["c"]
    /\ KeyUpper(KeyToken(decl)) = CharCode["a"]
    /\ parsed.err.message = "lower bound is greater than upper bound"

----------------------------------------------------------------------------
(* Mode blocks as written.                                                 *)

\* what the pairs of one rule of a block yield, one after the other
BlockBindings(block) ==
    Flatten([i \in DOMAIN block.inner |->
                IF block.inner[i].rule = "binding" THEN binding_parser(block.inner[i]).v
                ELSE <<>>])
BlockUnbinds(block) ==
    Flatten([i \in DOMAIN block.inner |->
                IF block.inner[i].rule = "unbind" THEN unbind_parser(block.inner[i]).v
                ELSE <<>>])

\* the mode a block declares
ModeAsWritten(block) ==
    [name |-> block.inner[1].str,
     oneoff |-> \E i \in DOMAIN block.inner : block.inner[i].rule = "oneoff",
     swallow |-> \E i \in DOMAIN block.inner : block.inner[i].rule = "swallow",
     bindings |-> BlockBindings(block),
     unbinds |-> BlockUnbinds(block)]

\* the modes a file declares, in the order it declares them
FileModes(path) ==
    LET blocks == SelectSeq(Contents(fs[path], path), LAMBDA c : c.rule = "mode")
    IN [i \in DOMAIN blocks |-> ModeAsWritten(blocks[i])]

\* C16: the bindings and ignored definitions of a mode block are in that
\* mode and nowhere else: every returned mode is a block as written, with
\* oneoff and swallow set exactly when the block writes them; every root
\* binding is one a file declares outside any block, every root unbind one
\* a file names outside any block, and no binding of a mode is among the
\* root bindings.
C16_ModeBlocksStayInTheirMode ==
    Returned =>
        /\ \A m \in DOMAIN result.v.modes :
               \E p \in Range(order) : result.v.modes[m] \in Range(FileModes(p))
        /\ \A b \in DOMAIN result.v.bindings :
               \E p \in Range(order) : result.v.bindings[b] \in Range(FileBindings(p))
        /\ \A u \in DOMAIN result.v.unbinds :
               \E p \in Range(order) : result.v.unbinds[u] \in Range(FileUnbinds(p))
        /\ \A m \in DOMAIN result.v.modes :
               \A b \in DOMAIN result.v.modes[m].bindings :
                  (\A p \in Range(order) :
                       result.v.modes[m].bindings[b] \notin Range(FileBindings(p)))
                  => result.v.modes[m].bindings[b] \notin Range(result.v.bindings)

\* a root file and an imported file each declared `mode m swallow { .. }`
\* with four bindings and an ignore line, and a binding outside the block
C16_Witness ==
    /\ Returned
    /\ Len(order) >= 2
    /\ Len(result.v.modes) >= 2
    /\ \A m \in DOMAIN result.v.modes :
           /\ result.v.modes[m].swallow
           /\ ~result.v.modes[m].oneoff
           /\ Len(result.v.modes[m].bindings) = 4
           /\ Len(result.v.modes[m].unbinds) = 1
    /\ result.v.unbinds = <<>>
    /\ result.v.bindings # <<>>

\* C17: the unbinds and the modes of every file read, at any depth, are in
\* the root's unbinds and modes, each file's after those of the files read
\* before it; a definition that an ignore line of any file read names is
\* bound by no root binding, whichever file declared the binding.
C17_ImportedUnbindsAndModesReachRoot ==
    Returned =>
        /\ result.v.unbinds = Flatten([i \in DOMAIN order |-> FileUnbinds(order[i])])
        /\ result.v.modes = Flatten([i \in DOMAIN order |-> FileModes(order[i])])
        /\ \A p \in Range(order) :
               \A d \in Range(FileUnbinds(p)) :
                  \A i \in DOMAIN result.v.bindings : result.v.bindings[i].definition # d

\* the root file binds `a`; a file included by an included file, and not by
\* the root file, ignores `a`
C17_Witness ==
    /\ Returned
    /\ fs[input].body = 1
    /\ Len(order) = 3
    /\ order[3] \in fs[order[2]].includes
    /\ order[3] \notin fs[input].includes
    /\ fs[order[3]].body = 4
    /\ FileBindings(input)[1].definition \in Range(FileUnbinds(order[3]))
    /\ Len(result.v.unbinds) = 4

----------------------------------------------------------------------------
(* read_config alone, on one path.                                         *)

\* 0, 1, 1 MiB - 1, 1 MiB, 1 MiB + 1, 50 MiB - 1, 50 MiB, 50 MiB + 1, 51 MiB,
\* 2^44, 2^64 - 2^20, 2^64 - 1
FileSizes ==
    {U64(0, 0, 0), U64(0, 0, 1), U64(0, 0, 2^20 - 1), U64(0, 1, 0), U64(0, 1, 1),
     U64(0, 49, 2^20 - 1), U64(0, 50, 0), U64(0, 50, 1), U64(0, 51, 0),
     U64(1, 0, 0), U64(2^20 - 1, 2^24 - 1, 0), U64(2^20 - 1, 2^24 - 1, 2^20 - 1)}

\* unset, not an integer, 0, 1, 50, 51, 2^24, 2^44 - 1, 2^44, 2^44 + 1,
\* 2^44 + 50, 2^64 - 1
CapVariables ==
    {Unset, NotInteger, Digits(U64(0, 0, 0)), Digits(U64(0, 0, 1)), Digits(U64(0, 0, 50)),
     Digits(U64(0, 0, 51)), Digits(U64(0, 16, 0)), Digits(U64(0, 2^24 - 1, 2^20 - 1)),
     Digits(U64(1, 0, 0)), Digits(U64(1, 0, 1)), Digits(U64(1, 0, 50)),
     Digits(U64(2^20 - 1, 2^24 - 1, 2^20 - 1))}

InitRead ==
    /\ input = 1
    /\ \E kind \in {"file", "directory", "absent"}, size \in FileSizes :
           fs = [p \in {1} |-> [File({}, 1) EXCEPT !.kind = kind, !.size = size]]
    /\ env \in CapVariables
    /\ pc = "read"
    /\ stack = <<>>
    /\ seen = {}
    /\ result = Ok(<<>>)
    /\ order = <<>>
    /\ decl = NoSpan
    /\ parsed = Ok(<<>>)
    /\ earlier = NoCall

\* read_config(input)
ReadConfig ==
    /\ pc = "read"
    /\ result' = read_config(input)
    /\ pc' = "read_done"
    /\ UNCHANGED <<fs, input, stack, seen, order, harness>>

NextRead == ReadConfig

SpecRead == InitRead /\ [][NextRead]_vars

\* cap * 2^20 of a cap below 2^44, where the product is below 2^64
MiBTimes(cap) == U64(cap.mid \div 16, cap.low + (cap.mid % 16) * 2^20, 0)

\* the size is above cap * 2^20, the product taken in the integers: a cap of
\* 2^44 or more gives a product no u64 size is above
AboveCap(size, cap) == cap.high = 0 /\ Greater(size, MiBTimes(cap))

\* C18: read_config of a regular file fails with TooLarge exactly when the
\* size of the file in bytes is above cap * 2^20, cap being the value of
\* FILESIZE_CAP_MIB as a u64, or 50 when it is unset or no integer; this for
\* every cap, those included whose product with 2^20 is 2^64 or more.
C18_TooLargeExactlyAboveCap ==
    (pc = "read_done" /\ fs[input].kind = "file") =>
        LET cap == IF env.kind = "digits" THEN env.value ELSE U64(0, 0, 50)
        IN IF AboveCap(fs[input].size, cap)
           THEN ~result.ok /\ result.err.kind = "TooLarge" /\ result.err.cap = cap
           ELSE result.ok

----------------------------------------------------------------------------
(* binding_parser on a declaration and on the same declaration with its    *)
(* modifiers written in another way.                                       *)

\* the names of one modifier
Aliases ==
    {{ctrl, <<"c", "o", "n", "t", "r", "o", "l">>},
     {super, <<"m", "o", "d", "4">>, <<"m", "e", "t", "a">>},
     {alt, <<"m", "o", "d", "1">>},
     {<<"a", "l", "t", "g", "r">>, <<"m", "o", "d", "5">>}}

\* the modifiers a sequence of names names, each as its set of names
Named(names) == {class \in Aliases : \E i \in DOMAIN names : names[i] \in class}

\* the names of the modifier groups of a declaration of single modifiers
GroupNames(declaration) ==
    [i \in 1..(Len(declaration.inner) - 2) |-> declaration.inner[i].str]

InitSpelling ==
    /\ \E names \in SeqsUpTo({CHOOSE name \in class : TRUE : class \in Aliases}, 0, MaxGroups),
          prefixes \in {<<>>, <<Send>>} :
           decl = Binding([i \in DOMAIN names |-> Modifier(names[i])]
                              \o <<KeyNormal(prefixes, <<"a">>)>>,
                          <<CommandStandalone(<<"x">>)>>)
    /\ parsed = Ok(<<>>)
    /\ earlier = NoCall
    /\ env = Unset
    /\ pc = "decl"
    /\ fs = <<>>
    /\ input = 0
    /\ stack = <<>>
    /\ seen = {}
    /\ result = Ok(<<>>)
    /\ order = <<>>

\* the source is edited: the same modifiers are written in another order,
\* more than once, or by other names, and the command is another
Respell ==
    /\ pc = "parsed"
    /\ earlier = NoCall
    /\ \E names \in SeqsUpTo(UNION Aliases, 0, MaxGroups + 1) :
           /\ Named(names) = Named(GroupNames(decl))
           /\ decl' = Binding([i \in DOMAIN names |-> Modifier(names[i])]
                                  \o <<decl.inner[Len(decl.inner) - 1]>>,
                              <<CommandStandalone(<<"y">>)>>)
    /\ earlier' = parsed
    /\ pc' = "decl"
    /\ UNCHANGED <<fs, input, stack, seen, result, order, env, parsed>>

NextSpelling ==
    \/ BindingParser
    \/ Respell

SpecSpelling == InitSpelling /\ [][NextSpelling]_vars

\* C19: two definitions with the same key, the same KeyAttribute and the
\* same modifiers are equal, in whatever order the modifiers are written,
\* however often, and by whichever of their names (ctrl/control,
\* super/mod4/meta, alt/mod1, altgr/mod5): the second binding overrides the
\* first, and an ignore of the second definition removes the first binding.
C19_DefinitionsEqualHoweverSpelled ==
    (pc = "parsed" /\ earlier # NoCall) =>
        /\ earlier.ok /\ parsed.ok
        /\ parsed.v[1].definition = earlier.v[1].definition
        /\ MergeBinding(earlier.v, parsed.v[1]) = parsed.v
        /\ ApplyUnbinds(earlier.v, <<parsed.v[1].definition>>) = <<>>

\* `meta + control + mod4 + ~a` was parsed after `ctrl + super + ~a`
C19_Witness ==
    /\ pc = "parsed"
    /\ earlier # NoCall
    /\ earlier.ok
    /\ earlier.v[1].definition.modifiers = {"Control", "Super"}
    /\ earlier.v[1].definition.key.attribute = KeyAttributeSend
    /\ GroupNames(decl) = <<<<"m", "e", "t", "a">>, <<"c", "o", "n", "t", "r", "o", "l">>,
                             <<"m", "o", "d", "4">>>>

----------------------------------------------------------------------------
(* from on files that each bind definitions of their own.                  *)

InitPairs ==
    /\ input \in Paths
    /\ \E includes \in [Paths -> IncludeSets] :
           fs = [p \in Paths |-> File(includes[p], 9)]
    /\ pc = "start"
    /\ stack = <<>>
    /\ seen = {}
    /\ result = Ok(<<>>)
    /\ order = <<>>
    /\ env = Unset
    /\ decl = NoSpan
    /\ parsed = Ok(<<>>)
    /\ earlier = NoCall

\* the actions of from and as_import that files without ignore lines and
\* mode blocks take
NextPairs ==
    \/ From
    \/ DeclBinding
    \/ DeclImport
    \/ ImportSeen
    \/ ImportCall
    \/ ImportReturn
    \/ FromReturn

SpecPairs == InitPairs /\ [][NextPairs]_vars

\* the definitions the ignore lines of the files read name
IgnoredDefinitions == UNION {Range(FileUnbinds(p)) : p \in Range(order)}

\* C20: in the returned root bindings every binding first declared in the
\* root file stands before every binding first declared in an imported
\* file, whether the include lines stand before or after the root file's
\* bindings; the bindings first declared in imported files follow, file by
\* file in the order the files were read, each file's in the order the file
\* declares them.
C20_RootFirstThenImportsInOrder ==
    Returned =>
        /\ Definitions(result.v.bindings) =
              SelectSeq(Distinct(Definitions(DocumentOrder(order))),
                        LAMBDA d : d \notin IgnoredDefinitions)
        /\ \A i, j \in DOMAIN result.v.bindings :
               (/\ result.v.bindings[i].definition \in Range(Definitions(FileBindings(input)))
                /\ result.v.bindings[j].definition \notin Range(Definitions(FileBindings(input))))
               => i < j

\* the root file, its include lines before its bindings, gave its three
\* bindings first; two imported files followed with two new bindings each
C20_Witness ==
    /\ Returned
    /\ input % 2 = 1
    /\ Cardinality(Range(order)) = 3
    /\ Len(result.v.bindings) = 7
    /\ Definitions(SubSeq(result.v.bindings, 1, 3)) = Definitions(FileBindings(input))
    /\ Definitions(SubSeq(result.v.bindings, 4, 5))
           = <<FileBindings(order[2])[1].definition, FileBindings(order[2])[3].definition>>
    /\ Definitions(SubSeq(result.v.bindings, 6, 7))
           = <<FileBindings(order[3])[1].definition, FileBindings(order[3])[3].definition>>

----------------------------------------------------------------------------
(* binding_parser on key names the key table has and has not.              *)

\* a, A, enter, and two names the table does not have
KeyNames == {<<"a">>, <<"A">>, <<"e", "n", "t", "e", "r">>, <<"a", "a">>, <<":">>}

\* the bounds of the key ranges: 9 and ; are keys, : between them is not
NameBounds ==
    ({"9", ":", ";"} \X {"9", ":", ";"}) \cup ({"a", "c"} \X {"a", "c"})

\* a plain key, two keys in a shorthand, a key range in a shorthand
NameTokens ==
    {KeyNormal(p, n) : p \in {<<>>, <<Send>>}, n \in KeyNames}
    \cup {Shorthand(<<KeyInShorthand(<<>>, n1), KeyInShorthand(<<>>, n2)>>) :
             n1 \in KeyNames, n2 \in KeyNames}
    \cup {Shorthand(<<KeyRange(KeyInShorthand(p, <<b[1]>>), KeyInShorthand(p, <<b[2]>>))>>) :
             p \in {<<>>, <<Send>>}, b \in NameBounds}

\* x    {f, g}    {p, q, r}
NameCommands ==
    {CommandStandalone(<<"x">>),
     CommandShorthand(<<CommandComponent(<<"f">>), CommandComponent(<<"g">>)>>),
     CommandShorthand(<<CommandComponent(<<"p">>), CommandComponent(<<"q">>),
                        CommandComponent(<<"r">>)>>)}

InitNames ==
    /\ \E groups \in SeqsUpTo(CaseGroups, 0, 1), key \in NameTokens,
          command \in NameCommands :
           decl = Binding(groups \o <<key>>, <<command>>)
    /\ parsed = Ok(<<>>)
    /\ earlier = NoCall
    /\ env = Unset
    /\ pc = "decl"
    /\ fs = <<>>
    /\ input = 0
    /\ stack = <<>>
    /\ seen = {}
    /\ result = Ok(<<>>)
    /\ order = <<>>

SpecNames == InitNames /\ [][NextDecl]_vars

\* the key token of a declaration, after its modifier groups
KeyTokenOf(declaration) == declaration.inner[Len(declaration.inner) - 1]

\* the key names a key token stands for, in the order written: the folded
\* name of a plain key or of each key of a shorthand, every character from
\* the lower to the upper bound of a range
NamesOf(token) ==
    IF token.rule = "key_normal"
    THEN <<[i \in DOMAIN token.inner[Len(token.inner)].str |->
               Folded(token.inner[Len(token.inner)].str[i])]>>
    ELSE IF IsKeyRange(token)
         THEN [n \in 1..(KeyUpper(token) - KeyLower(token) + 1) |->
                  <<CharOf(KeyLower(token) + n - 1)>>]
    ELSE [k \in DOMAIN token.inner |->
             [i \in DOMAIN token.inner[k].inner[Len(token.inner[k].inner)].str |->
                 Folded(token.inner[k].inner[Len(token.inner[k].inner)].str[i])]]

\* the places of the names the key table does not have
Unknown(names) == {k \in DOMAIN names : names[k] \notin DOMAIN KEY_MAP}

----------------------------------------------------------------------------
(* binding_parser on commands of several pieces.                           *)

\* a    {a, \-}
CommandKeys ==
    {KeyNormal(<<>>, <<"a">>),
     Shorthand(<<KeyInShorthand(<<>>, <<"a">>), KeyInShorthand(<<>>, <<"\\", "-">>)>>)}

\* x    {\-\-sync, \,}
FirstPieces ==
    {CommandStandalone(<<"x">>),
     CommandShorthand(<<CommandComponent(<<"\\", "-", "\\", "-", "sync">>),
                        CommandComponent(<<"\\", ",">>)>>)}

\* y    &&    @enter m    @enter n    @escape
LaterPieces ==
    {CommandStandalone(<<"y">>),
     CommandDoubleAmpersand,
     EnterMode(<<"m">>),
     EnterMode(<<"n">>),
     EscapeMode}

InitCommands ==
    /\ \E key \in CommandKeys, first \in FirstPieces,
          pieces \in SeqsUpTo(LaterPieces, 0, MaxTokens) :
           decl = Binding(<<key>>, <<first>> \o pieces)
    /\ parsed = Ok(<<>>)
    /\ earlier = NoCall
    /\ env = Unset
    /\ pc = "decl"
    /\ fs = <<>>
    /\ input = 0
    /\ stack = <<>>
    /\ seen = {}
    /\ result = Ok(<<>>)
    /\ order = <<>>

SpecCommands == InitCommands /\ [][NextDecl]_vars

\* the @enter and @escape tokens of a declaration's command, in source order
ModeTokens(declaration) ==
    SelectSeq(declaration.inner[Len(declaration.inner)].inner,
              LAMBDA c : c.rule \in {"enter_mode", "escape_mode"})

\* how many of the tokens i..j are of a rule
Count(tokens, rule, i, j) == Cardinality({k \in i..j : tokens[k].rule = rule})

\* the places of the Enter tokens no later Escape pops: after them, up to
\* any place, there are no more escapes than enters
PendingEnters(tokens) ==
    {i \in DOMAIN tokens :
        /\ tokens[i].rule = "enter_mode"
        /\ \A j \in (i + 1)..Len(tokens) :
               Count(tokens, "escape_mode", i + 1, j) <= Count(tokens, "enter_mode", i + 1, j)}

\* the places of the Escape tokens met while no Enter is pending: before
\* them, from any place, there are no more enters than escapes
LoneEscapes(tokens) ==
    {j \in DOMAIN tokens :
        /\ tokens[j].rule = "escape_mode"
        /\ \A i \in 1..(j - 1) :
               Count(tokens, "enter_mode", i, j - 1) <= Count(tokens, "escape_mode", i, j - 1)}

\* the mode instructions a command stands for
Instructions(tokens) ==
    [k \in 1..Cardinality(PendingEnters(tokens)) |->
        Enter(tokens[SortedSeq(PendingEnters(tokens))[k]].inner[1].str)]
    \o [k \in 1..Cardinality(LoneEscapes(tokens)) |-> Escape]

C26_EntersBeforeEscapes ==
    (pc = "parsed" /\ parsed.ok) =>
        /\ \A i \in DOMAIN parsed.v :
               \A k, l \in DOMAIN parsed.v[i].mode_instructions :
                   (/\ parsed.v[i].mode_instructions[k].tag = "Escape"
                    /\ parsed.v[i].mode_instructions[l].tag = "Enter") => l < k
        /\ \A i, j \in DOMAIN parsed.v :
               parsed.v[i].mode_instructions = parsed.v[j].mode_instructions

\* `{a, \-}` bound to `{..} @escape @enter m`: both bindings carry
\* Enter(m), Escape
C26_Witness ==
    /\ pc = "parsed"
    /\ parsed.ok
    /\ Len(parsed.v) = 2
    /\ ModeTokens(decl) = <<EscapeMode, EnterMode(<<"m">>)>>
    /\ parsed.v[1].mode_instructions = <<Enter(<<"m">>), Escape>>
    /\ parsed.v[2].mode_instructions = <<Enter(<<"m">>), Escape>>

\* the command segments of a declaration once all are assembled: a lone
\* `&&` in final position is no segment
FinalSegments(declaration) ==
    LET segments == CommandSegments(declaration)
    IN IF segments # <<>> /\ segments[Len(segments)] = <<<<"&&">>>>
       THEN SubSeq(segments, 1, Len(segments) - 1)
       ELSE segments

\* C23: every command is its segments' chosen alternatives concatenated
\* with nothing between them, where a `&&` that follows a lone `&&` is no
\* segment and a lone `&&` in final position is none either; so no command
\* ends with `&&` and none has two `&&` next to each other.
C23_NoTrailingOrDoubledAmpersand ==
    (pc = "parsed" /\ parsed.ok) =>
        LET segments == FinalSegments(decl)
        IN \A i \in DOMAIN parsed.v :
              /\ parsed.v[i].command =
                     Flatten([k \in DOMAIN segments |->
                                 segments[k][Chosen(i, Sizes(segments), k)]])
              /\ parsed.v[i].command[Len(parsed.v[i].command)] # "&&"
              /\ \A k \in 1..(Len(parsed.v[i].command) - 1) :
                     ~(parsed.v[i].command[k] = "&&" /\ parsed.v[i].command[k + 1] = "&&")

\* a text with every backslash removed and the character after it kept
RECURSIVE Unescaped(_)
Unescaped(text) ==
    IF text = <<>> THEN <<>>
    ELSE IF Head(text) = "\\" /\ Len(text) >= 2
         THEN <<text[2]>> \o Unescaped(SubSeq(text, 3, Len(text)))
    ELSE <<Head(text)>> \o Unescaped(Tail(text))

\* C24: an escaped character of a command shorthand's alternative gives
\* the command the character alone, without its backslash, as an escaped
\* character of a key token gives the key the character alone: the command
\* of binding n of `{a, \-}` / `{\-\-sync, \,} ..` begins with the n-th
\* alternative unescaped (`--sync`, `,`), and the key `\-` is the key `-`.
C24_EscapedCharacterLosesBackslash ==
    (pc = "parsed" /\ parsed.ok /\ CommandToken(decl).rule = "command_shorthand") =>
        \A i \in DOMAIN parsed.v :
            /\ SubSeq(parsed.v[i].command, 1,
                      Len(Unescaped(CommandToken(decl).inner[i].str)))
                   = Unescaped(CommandToken(decl).inner[i].str)
            /\ parsed.v[i].definition.key.key =
                   KEY_MAP[Unescaped(KeyToken(decl).inner[i].inner[1].str)]

----------------------------------------------------------------------------
(* from called twice on the same file system.                              *)

\* what a call of from returned and the files it read, in the order read
Call(returned, read) == [returned |-> returned, read |-> read]

\* from is called a second time: nothing has changed at any path
Rerun ==
    /\ pc = "done"
    /\ earlier = NoCall
    /\ earlier' = Call(result, order)
    /\ pc' = "start"
    /\ stack' = <<>>
    /\ seen' = {}
    /\ order' = <<>>
    /\ result' = Ok(<<>>)
    /\ UNCHANGED <<fs, input, env, decl, parsed>>

NextRerun ==
    \/ Next
    \/ Rerun

SpecRerun == InitFair /\ [][NextRerun]_vars

\* a pending import leaves the set of the call at the top of the stack
Popped == {p \in top.imports : p \notin stack'[Len(stack)].imports}

----------------------------------------------------------------------------
\* how many times a path was read and parsed
TimesParsed(path) == Cardinality({i \in DOMAIN order : order[i] = path})

\* the files a call of from has parsed
Processed == Range(order)

\* C27: the imports of the returned Configuration are the paths that were
\* read as imports, at any depth: every path some file reachable from the
\* root includes.  The root's own path is among them exactly when some
\* processed file includes it, and then the root file was parsed twice; no
\* other file is parsed twice, and no file more than twice.
C27_ImportsAreAllPathsRead ==
    /\ \A p \in DOMAIN fs : TimesParsed(p) <= IF p = input THEN 2 ELSE 1
    /\ Returned =>
          /\ result.v.imports = Range(Tail(order))
          /\ result.v.imports = UNION {fs[p].includes : p \in Closure({input})}
          /\ input \in result.v.imports <=> \E p \in Processed : input \in fs[p].includes
          /\ TimesParsed(input) = IF input \in result.v.imports THEN 2 ELSE 1

\* 1 includes 2, 2 includes 3, 3 includes 1: the imports are 1, 2, 3 and
\* file 1 was parsed twice
C27_Witness ==
    /\ Returned
    /\ input = 1
    /\ fs[1].includes = {2}
    /\ fs[2].includes = {3}
    /\ fs[3].includes = {1}
    /\ result.v.imports = {1, 2, 3}
    /\ order = <<1, 2, 3, 1>>

----------------------------------------------------------------------------
(* from on files with ignore lines.                                        *)

IgnoreScenarios == {<<10, 1>>, <<1, 10>>, <<11, 1>>, <<1, 11>>, <<10, 11>>}

InitIgnores ==
    /\ input \in Paths
    /\ \E includes \in [Paths -> IncludeSets], scenario \in IgnoreScenarios :
           fs = [p \in Paths |->
                    File(includes[p], IF p = input THEN scenario[1] ELSE scenario[2])]
    /\ pc = "start"
    /\ stack = <<>>
    /\ seen = {}
    /\ result = Ok(<<>>)
    /\ order = <<>>
    /\ env = Unset
    /\ decl = NoSpan
    /\ parsed = Ok(<<>>)
    /\ earlier = NoCall

NextIgnores ==
    \/ From
    \/ DeclBinding
    \/ DeclUnbind
    \/ DeclImport
    \/ ImportSeen
    \/ ImportCall
    \/ ImportReturn
    \/ FromReturn

SpecIgnores == InitIgnores /\ [][NextIgnores]_vars

\* the ignore lines of a file
IgnoreLines(path) ==
    SelectSeq(Contents(fs[path], path), LAMBDA c : c.rule = "unbind")

\* the definitions a binding declaration with the definition expression of
\* an ignore line creates
Created(line) ==
    Definitions(binding_parser(Binding(line.inner, <<CommandFor(line.inner)>>)).v)

\* C28: no root binding of the returned Configuration has a definition that
\* a binding declaration with the definition expression of an ignore line of
\* a file read creates, also when the expression uses the omission
\* alternative; and no definition of the unbinds has Omission among its
\* modifiers.
C28_OmissionIgnoreRemovesEveryVariant ==
    Returned =>
        /\ \A p \in Processed : \A l \in DOMAIN IgnoreLines(p) :
               \A d \in Range(Created(IgnoreLines(p)[l])) :
                   d \notin Range(Definitions(result.v.bindings))
        /\ \A d \in Range(result.v.unbinds) : "Omission" \notin d.modifiers

\* C29: in every mode of the returned Configuration no two bindings have
\* the same definition, and no binding has a definition that is among the
\* mode's own unbinds.
C29_ModeBindingsUniqueAndNotIgnored ==
    Returned =>
        \A m \in DOMAIN result.v.modes :
            /\ \A i, j \in DOMAIN result.v.modes[m].bindings :
                   result.v.modes[m].bindings[i].definition
                       = result.v.modes[m].bindings[j].definition => i = j
            /\ \A i \in DOMAIN result.v.modes[m].bindings :
                   result.v.modes[m].bindings[i].definition
                       \notin Range(result.v.modes[m].unbinds)

\* C30: when from applies the unbinds, the bindings it returns are the
\* root call's bindings whose definition (modifier set, key and attribute)
\* is none of the ignored ones, each with its command and mode instructions
\* and in the same order; an ignored definition that is not bound is no error.
C30_UnbindsRemoveExactlyTheIgnored ==
    [][(pc = "run" /\ pc' = "done" /\ result'.ok) =>
          result'.v.bindings =
              SelectSeq(top.bindings, LAMBDA b : b.definition \notin Range(top.unbinds))]_vars

\* `ignore a` and `ignore c` were applied to `~a`, `a`, `b`: `~a` is bound
\* with its command and Enter(m), `a` is not bound, `b` follows, `c` never was
C30_Witness ==
    /\ Returned
    /\ fs[input].body = 11
    /\ Len(result.v.bindings) >= 2
    /\ result.v.bindings[1].definition.key = [key |-> "KEY_A", attribute |-> KeyAttributeSend]
    /\ result.v.bindings[1].mode_instructions = <<Enter(<<"m">>)>>
    /\ result.v.bindings[2].definition.key = [key |-> "KEY_B", attribute |-> KeyAttributeNone]
    /\ \A i \in DOMAIN result.v.bindings :
           result.v.bindings[i].definition.key # [key |-> "KEY_A", attribute |-> KeyAttributeNone]
    /\ \E i \in DOMAIN result.v.unbinds : result.v.unbinds[i].key.key = "KEY_C"
    /\ \A p \in Processed : fs[p].body = 11

====
